---- MODULE Spec2Model ----
(***************************************************************************)
(* A model of docker-rbd-plugin: the Dev state machine of package rbd      *)
(* (map / mount / unmount / unmap of images and snapshots), the mount      *)
(* namespace scanner, the rbd-snap batch tool (snap / prune), and the      *)
(* rbddriver lock manager and reference-counted driver.                    *)
(*                                                                         *)
(* The sources hold several revisions of the same files; each definition   *)
(* below models the revision named for it in MODEL_MAP.json.               *)
(***************************************************************************)
EXTENDS Integers, Sequences, FiniteSets, TLC

VARIABLES
    nbd,      \* the kernel's mapping list ("rbd nbd list"): a set of mappedNBD rows
    tables,   \* /proc/<pid>/mountinfo per mount namespace: ns -> sequence of lines
    procs,    \* /proc: pid -> [ns, nsOk (ns/mnt readable), tabOk (mountinfo readable)]
    ret,      \* the last operation: its name, arguments and result
    kcalls,   \* the kernel and cluster calls the last operation issued, in order
    snaps,    \* the cluster's snapshots: a set of [image, name, created]
    batch,    \* the rbd-snap run in progress: its arguments, work left and errors
    clock,    \* time.Now()
    locks,    \* the volume's lock list ("rbd lock list"): a set of [host, exp]
    drv,      \* the driver's RbdImage and RbdLock: users, noUsrCnt, activeLock, loop
    docker,   \* the mount ids of the running containers that use the volume
    rel,      \* the calls of RbdLock.release in progress, and the closes of rl.open
    cluster,  \* the image on the cluster: its features and its exclusive lock's holder
    mux,      \* the plugin's mutexMap, its RWMutex, and the requests in progress
    sd,       \* the driver's shutdown: rd.mutex, unmountWg, the signal, the Unmounts
    acq       \* two hosts that acquire the lock of one image: each one's position

devVars == <<nbd, tables, procs, ret, kcalls>>
toolVars == <<snaps, batch>>
drvVars == <<locks, drv, docker>>
restVars == <<rel, cluster, mux, sd, acq>>
vars == <<devVars, toolVars, clock, drvVars, restVars>>

\* No rbd-snap run and no driver: what the Dev operations leave alone.
NoBatch ==
    [tool |-> "idle", patterns |-> {}, before |-> 0, name |-> "", onlyMapped |-> FALSE,
     todo |-> {}, errs |-> <<>>, start |-> {}, clean |-> TRUE, joined |-> <<>>,
     frozen |-> {}]    \* the mountpoints a run froze and has not unfrozen
NoDrv ==
    [loaded |-> FALSE, users |-> {}, noUsrCnt |-> 0, active |-> FALSE,
     open |-> FALSE, loop |-> "none"]
ToolIdle == snaps = {} /\ batch = NoBatch /\ clock = 0
DriverIdle == locks = {} /\ drv = NoDrv /\ docker = {}

\* No goroutine is inside a function the model follows step by step.
NoRel == [pc |-> <<>>, listed |-> <<>>, closes |-> 0, panic |-> FALSE]
NoCluster == [features |-> {}, holder |-> "none", exists |-> TRUE]
NoMux == [map |-> <<>>, made |-> 0, readers |-> {}, writer |-> 0, held |-> <<>>,
          vol |-> <<>>, req |-> <<>>]
NoSd == [mutex |-> 0, wg |-> 0, sig |-> "none", mounts |-> FALSE, req |-> <<>>]
NoAcq == <<>>
RestIdle ==
    rel = NoRel /\ cluster = NoCluster /\ mux = NoMux /\ sd = NoSd /\ acq = NoAcq

(***************************************************************************)
(* Values                                                                  *)
(***************************************************************************)
Nil == "nil"
ErrNotMapped == "ErrNotMapped"
ErrMountedElsewhere == "ErrMountedElsewhere"
ErrParse == "ErrParse"                  \* parseMountinfoLine failed
ErrParentNotFound == "ErrParentNotFound"
ErrOpen == "ErrOpen"                    \* os.Open of a mountinfo file failed
ErrDeviceBusy == "ErrDeviceBusy"
ErrSyscall == "ErrSyscall"              \* a failed mount(2) / umount(2)
ErrCmd == "ErrCmd"                      \* a failed rbd command, unmapped exit code

MS_RDONLY == 1
MS_NOATIME == 1024
Flags == {0, MS_RDONLY, MS_NOATIME, MS_RDONLY + MS_NOATIME}

RECURSIVE BitAnd(_, _)
BitAnd(a, b) ==
    IF a = 0 \/ b = 0 THEN 0
    ELSE (a % 2) * (b % 2) + 2 * BitAnd(a \div 2, b \div 2)

PoolName == "docker"
Img == [kind |-> "Image", image |-> "data1", snap |-> "-"]
Snap == [kind |-> "Snapshot", image |-> "data1", snap |-> "s1"]
Devs == {Img, Snap}

BlkPaths == <<"/dev/nbd0", "/dev/nbd1">>
Blks == {BlkPaths[i] : i \in 1..Len(BlkPaths)}

MpTarget == "/mnt/data"
MpOther == "/mnt/other"
MpSub == "/mnt/data/sub"
MountPoints == {MpTarget, MpOther}

SelfNs == "self"
ForeignNs == {"nsA", "nsB"}
AllNs == {SelfNs} \cup ForeignNs

(***************************************************************************)
(* Mount tables                                                            *)
(***************************************************************************)
\* A line of a mountinfo file. ok = FALSE is a line parseMountinfoLine rejects.
Line(id, parent, src, mp, shared, master) ==
    [ok |-> TRUE, ID |-> id, ParentID |-> parent, Source |-> src,
     MountPoint |-> mp, Shared |-> shared, Master |-> master]

BadLine ==
    [ok |-> FALSE, ID |-> 0, ParentID |-> 0, Source |-> "", MountPoint |-> "",
     Shared |-> 0, Master |-> 0]

RootLine(shared, master) == Line(1, 0, "rootfs", "/", shared, master)

parseMountinfoLine(line) == [err |-> IF line.ok THEN Nil ELSE ErrParse, m |-> line]

\* The lines read before the first one that does not parse (all, if none).
RECURSIVE ParsedPrefix(_)
ParsedPrefix(lines) ==
    IF lines = <<>> THEN <<>>
    ELSE IF parseMountinfoLine(Head(lines)).err # Nil THEN <<>>
    ELSE <<Head(lines)>> \o ParsedPrefix(Tail(lines))

SelectLines(lines, blk, wantDev) ==
    SelectSeq(lines, LAMBDA m : ((m.Source = blk \/ blk = "") <=> wantDev))

\* otherMounts[id]: the last line of `others` with that ID.
HasOther(others, id) == \E i \in 1..Len(others) : others[i].ID = id
OtherMount(others, id) ==
    others[CHOOSE i \in 1..Len(others) :
              /\ others[i].ID = id
              /\ \A j \in (i+1)..Len(others) : others[j].ID # id]

WithParent(m, others) ==
    [m |-> m,
     PShared |-> IF HasOther(others, m.ParentID) THEN OtherMount(others, m.ParentID).Shared ELSE 0,
     PMaster |-> IF HasOther(others, m.ParentID) THEN OtherMount(others, m.ParentID).Master ELSE 0]

\* file = [exists, lines]. Returns [err, mounts]: the lines whose source is blk,
\* each with its parent's propagation ids.
getMountInfoForDevFromFile(file, blk) ==
    IF ~file.exists THEN [err |-> ErrOpen, mounts |-> <<>>]
    ELSE
      LET read == ParsedPrefix(file.lines)
          mounts == SelectLines(read, blk, TRUE)
          others == SelectLines(read, blk, FALSE)
          withP == [i \in 1..Len(mounts) |-> WithParent(mounts[i], others)]
      IN  IF Len(read) < Len(file.lines) THEN [err |-> ErrParse, mounts |-> withP]
          ELSE IF \E i \in 1..Len(mounts) : ~HasOther(others, mounts[i].ParentID)
               THEN [err |-> ErrParentNotFound, mounts |-> withP]
          ELSE [err |-> Nil, mounts |-> withP]

SelfFile == [exists |-> TRUE, lines |-> tables[SelfNs]]

getMounts(blk) == getMountInfoForDevFromFile(SelfFile, blk)

isMountedAt(blk, mountPoint) ==
    LET r == getMounts(blk)
    IN  IF r.err # Nil THEN [err |-> r.err, mounted |-> FALSE]
        ELSE [err |-> Nil,
              mounted |-> \E i \in 1..Len(r.mounts) : r.mounts[i].m.MountPoint = mountPoint]

\* The files of /proc/<pid>: ns/mnt may be unreadable (the process ended), and so
\* may mountinfo after ns/mnt was read.
NumProcs == 2
Pids == 1..NumProcs

ProcFile(pid) ==
    [exists |-> procs[pid].tabOk, lines |-> tables[procs[pid].ns]]

\* The mutation of C26: every foreign mount is tolerated while we hold one.
ToleratedAny(fm, myMounts) == Len(myMounts) > 0

\* A foreign mount of the device is tolerated when an unmount here reaches it:
\* its parent is in the peer group of our mount's parent, or a slave of it.
Tolerated(fm, myMounts) ==
    /\ Len(myMounts) > 0
    /\ \/ (fm.PShared # 0 /\ fm.PShared = myMounts[1].PShared)
       \/ (fm.PMaster # 0 /\ fm.PMaster = myMounts[1].PShared)

\* The loop over /proc of isMountedElsewhere, from directory entry pid on, with
\* the namespaces already examined.
RECURSIVE scanProcs(_, _, _, _)
scanProcs(pid, namespaces, blk, myMounts) ==
    IF pid > NumProcs THEN Nil
    ELSE IF ~procs[pid].nsOk THEN scanProcs(pid + 1, namespaces, blk, myMounts)
    ELSE IF procs[pid].ns \in namespaces THEN scanProcs(pid + 1, namespaces, blk, myMounts)
    ELSE
      LET r == getMountInfoForDevFromFile(ProcFile(pid), blk)
      IN  IF r.err # Nil THEN scanProcs(pid + 1, namespaces, blk, myMounts)
          ELSE IF \E i \in 1..Len(r.mounts) : ~Tolerated(r.mounts[i], myMounts)
               THEN ErrMountedElsewhere
          ELSE scanProcs(pid + 1, namespaces \cup {procs[pid].ns}, blk, myMounts)

isMountedElsewhere(blk, mountpoint) ==
    LET r == getMounts(blk)
    IN  IF r.err # Nil THEN r.err
        ELSE IF \E i \in 1..Len(r.mounts) : r.mounts[i].m.MountPoint # mountpoint
             THEN ErrMountedElsewhere
        ELSE scanProcs(1, {SelfNs}, blk, r.mounts)

(***************************************************************************)
(* The kernel: mount(2), umount(2) and the nbd mapping list                *)
(***************************************************************************)
LinesOf(t) == UNION {{t[ns][i] : i \in 1..Len(t[ns])} : ns \in DOMAIN t}
Sources(t) == {l.Source : l \in LinesOf(t)}

LineIds(lines) == {lines[i].ID : i \in 1..Len(lines)}
NextId(lines) == CHOOSE n \in 1..(Len(lines) + 1) : n \notin LineIds(lines)

GroupIds(t) == UNION {{l.Shared, l.Master} : l \in LinesOf(t)}
FreshGroup(t) == CHOOSE n \in 1..(2 * Cardinality(LinesOf(t)) + 1) : n \notin GroupIds(t)

\* The mount a path resolves to: the last mount in the table on that path, or
\* the root.
HasAt(lines, mp) == \E i \in 1..Len(lines) : lines[i].MountPoint = mp
LastAt(lines, mp) ==
    CHOOSE i \in 1..Len(lines) :
        /\ lines[i].MountPoint = mp
        /\ \A j \in (i+1)..Len(lines) : lines[j].MountPoint # mp
ParentAt(lines, mp) == IF HasAt(lines, mp) THEN lines[LastAt(lines, mp)] ELSE lines[1]

RemoveAt(lines, i) == SubSeq(lines, 1, i - 1) \o SubSeq(lines, i + 1, Len(lines))

\* The mounts of ns that receive events from mount p: its peers and its slaves.
Receivers(lines, p) ==
    {i \in 1..Len(lines) :
        p.Shared # 0 /\ (lines[i].Shared = p.Shared \/ lines[i].Master = p.Shared)}

\* mount(2) of blk on mp in our namespace, propagated to the namespaces that
\* hold a peer or a slave of the parent mount.
kMount(t, blk, mp) ==
    LET p == ParentAt(t[SelfNs], mp)
        g == IF p.Shared # 0 THEN FreshGroup(t) ELSE 0
    IN  [ns \in DOMAIN t |->
            IF ns = SelfNs
            THEN Append(t[ns], Line(NextId(t[ns]), p.ID, blk, mp, g, 0))
            ELSE IF Receivers(t[ns], p) = {} THEN t[ns]
            ELSE LET q == t[ns][CHOOSE i \in Receivers(t[ns], p) : TRUE]
                 IN  Append(t[ns],
                         Line(NextId(t[ns]), q.ID, blk, mp,
                              IF q.Shared = p.Shared THEN g ELSE 0,
                              IF q.Shared = p.Shared THEN 0 ELSE g))]

\* umount(2) of the mount the path mp resolves to, with the copies of it that
\* were propagated.
kUnmount(t, mp) ==
    LET m == t[SelfNs][LastAt(t[SelfNs], mp)]
        Copy(l) == /\ m.Shared # 0
                   /\ l.Source = m.Source /\ l.MountPoint = m.MountPoint
                   /\ (l.Shared = m.Shared \/ l.Master = m.Shared)
    IN  [ns \in DOMAIN t |->
            IF ns = SelfNs THEN RemoveAt(t[ns], LastAt(t[ns], mp))
            ELSE SelectSeq(t[ns], LAMBDA l : ~Copy(l))]

FreeBlks == {i \in 1..Len(BlkPaths) : \A m \in nbd : m.Device # BlkPaths[i]}
FirstFree == BlkPaths[CHOOSE i \in FreeBlks : \A j \in FreeBlks : i <= j]

Row(d, blk, ro) ==
    [Device |-> blk, Pool |-> PoolName, Name |-> d.image, Snapshot |-> d.snap, ro |-> ro]

IsDevice(n, blk) == \E m \in n : m.Device = blk
IsReadOnly(n, blk) == \E m \in n : m.Device = blk /\ m.ro

(***************************************************************************)
(* package rbd: Dev (images and snapshots)                                 *)
(***************************************************************************)
\* An operation's outcome: its error, its output, the kernel and cluster calls
\* it issued, and the mapping list and mount tables it leaves.
R(err, out, calls, n, t) ==
    [err |-> err, out |-> out, calls |-> calls, nbd |-> n, tables |-> t]

Call(name, blk, mp, flags) == [call |-> name, blk |-> blk, mp |-> mp, flags |-> flags]

\* The external call that fails during an operation, if one does.
Fails == {"none", "list", "map", "mount", "umount", "unmap"}

mappedNBDs(fail) ==
    IF fail = "list" THEN [err |-> ErrCmd, mapped |-> {}]
    ELSE [err |-> Nil, mapped |-> nbd]

IsDev(m, d) ==
    IF d.kind = "Image"
    THEN m.Snapshot = "-" /\ m.Name = d.image /\ m.Pool = PoolName
    ELSE m.Snapshot = d.snap /\ m.Name = d.image /\ m.Pool = PoolName

device(d, fail) ==
    LET l == mappedNBDs(fail)
    IN  IF l.err # Nil THEN [err |-> l.err, blk |-> ""]
        ELSE IF \E m \in l.mapped : IsDev(m, d)
             THEN [err |-> Nil, blk |-> (CHOOSE m \in l.mapped : IsDev(m, d)).Device]
        ELSE [err |-> Nil, blk |-> ""]

mustDevice(d, fail) ==
    LET dv == device(d, fail)
    IN  IF dv.err = Nil /\ dv.blk = "" THEN [err |-> ErrNotMapped, blk |-> ""] ELSE dv

\* "rbd nbd map" through cmdOut: the command prints the device path and a
\* newline, and cmdOut returns its output as it is.
cmdOut(d, ro, fail) ==
    LET c == <<Call("nbd map", "", "", IF ro THEN MS_RDONLY ELSE 0)>>
    IN  IF fail = "map" \/ FreeBlks = {} THEN R(ErrCmd, "", c, nbd, tables)
        ELSE R(Nil, FirstFree \o "\n", c, nbd \cup {Row(d, FirstFree, ro)}, tables)

devMap(d, ro, fail) ==
    LET dv == device(d, fail)
    IN  IF dv.err # Nil \/ dv.blk # "" THEN R(dv.err, dv.blk, <<>>, nbd, tables)
        ELSE cmdOut(d, ro, fail)

\* Image.Map passes its arguments on, Snapshot.Map prepends --read-only.
DevMap(d, fail) == devMap(d, d.kind = "Snapshot", fail)

\* blkid reads the file system type off the device, and fails when there is no
\* such device.
getFs(n, blk) ==
    IF IsDevice(n, blk) THEN [err |-> Nil, fs |-> "xfs"] ELSE [err |-> ErrCmd, fs |-> ""]

mount(n, blk, mountPoint, fs, flags, fail) ==
    LET ma == isMountedAt(blk, mountPoint)
        c == <<Call("mount", blk, mountPoint, flags)>>
    IN  IF ma.err # Nil \/ ma.mounted THEN R(ma.err, "", <<>>, n, tables)
        ELSE IF fs = "" /\ getFs(n, blk).err # Nil THEN R(getFs(n, blk).err, "", <<>>, n, tables)
        ELSE IF \/ fail = "mount"
                \/ ~IsDevice(n, blk)
                \/ (IsReadOnly(n, blk) /\ BitAnd(flags, MS_RDONLY) = 0)
             THEN R(ErrSyscall, "", c, n, tables)
        ELSE R(Nil, "", c, n, kMount(tables, blk, mountPoint))

devMount(d, mountPoint, fs, flags, fail) ==
    LET md == mustDevice(d, fail)
    IN  IF md.err # Nil THEN R(md.err, "", <<>>, nbd, tables)
        ELSE mount(nbd, md.blk, mountPoint, fs, flags, fail)

SnapshotMount(d, mountPoint, fs, flags, fail) ==
    devMount(d, mountPoint, fs, BitAnd(flags, MS_RDONLY), fail)

DevMount(d, mountPoint, fs, flags, fail) ==
    IF d.kind = "Snapshot" THEN SnapshotMount(d, mountPoint, fs, flags, fail)
    ELSE devMount(d, mountPoint, fs, flags, fail)

\* devMapAndMount that mounts once more when the mount after the map fails.
devMapAndMountAgain(d, mountPoint, fs, flags, fail) ==
    LET r == DevMount(d, mountPoint, fs, flags, fail)
    IN  IF r.err # ErrNotMapped THEN r
        ELSE LET m == DevMap(d, fail)
             IN  IF m.err # Nil THEN R(m.err, "", m.calls, m.nbd, m.tables)
                 ELSE LET mt == mount(m.nbd, m.out, mountPoint, fs, flags, fail)
                      IN  R(mt.err, "", m.calls \o mt.calls \o
                                (IF mt.err # Nil THEN mt.calls ELSE <<>>), mt.nbd, mt.tables)

devMapAndMount(d, mountPoint, fs, flags, fail) ==
    LET r == DevMount(d, mountPoint, fs, flags, fail)
    IN  IF r.err # ErrNotMapped THEN r
        ELSE LET m == DevMap(d, fail)
             IN  IF m.err # Nil THEN R(m.err, "", m.calls, m.nbd, m.tables)
                 ELSE LET mt == mount(m.nbd, m.out, mountPoint, fs, flags, fail)
                      IN  R(mt.err, "", m.calls \o mt.calls, mt.nbd, mt.tables)

unmount(blk, mountPoint, fail) ==
    LET ma == isMountedAt(blk, mountPoint)
        c == <<Call("umount", "", mountPoint, 0)>>
    IN  IF ma.err # Nil \/ ~ma.mounted THEN R(ma.err, "", <<>>, nbd, tables)
        ELSE IF fail = "umount" THEN R(ErrSyscall, "", c, nbd, tables)
        ELSE R(Nil, "", c, nbd, kUnmount(tables, mountPoint))

\* "rbd nbd unmap" of a device that is still mounted somewhere fails with exit
\* code 16.
unmap(n, t, blk, fail) ==
    LET c == <<Call("nbd unmap", blk, "", 0)>>
    IN  IF fail = "unmap" \/ ~IsDevice(n, blk) THEN R(ErrCmd, "", c, n, t)
        ELSE IF blk \in Sources(t) THEN R(ErrDeviceBusy, "", c, n, t)
        ELSE R(Nil, "", c, {m \in n : m.Device # blk}, t)

devUnmount(d, mountPoint, fail) ==
    LET dv == device(d, fail)
    IN  IF dv.err # Nil \/ dv.blk = "" THEN R(dv.err, "", <<>>, nbd, tables)
        ELSE unmount(dv.blk, mountPoint, fail)

devUnmap(d, fail) ==
    LET dv == device(d, fail)
    IN  IF dv.err # Nil \/ dv.blk = "" THEN R(dv.err, "", <<>>, nbd, tables)
        ELSE unmap(nbd, tables, dv.blk, fail)

\* devUnmountAndUnmap without the check for mounts elsewhere.
UnmountAndUnmapUnchecked(d, mountPoint, fail) ==
    LET dv == device(d, fail)
        um == unmount(dv.blk, mountPoint, fail)
        un == unmap(um.nbd, um.tables, dv.blk, fail)
    IN  IF dv.err # Nil \/ dv.blk = "" THEN R(dv.err, "", <<>>, nbd, tables)
        ELSE IF um.err # Nil THEN um
        ELSE R(un.err, "", um.calls \o un.calls, un.nbd, un.tables)

devUnmountAndUnmap(d, mountPoint, fail) ==
    LET dv == device(d, fail)
        me == isMountedElsewhere(dv.blk, mountPoint)
        um == unmount(dv.blk, mountPoint, fail)
        un == unmap(um.nbd, um.tables, dv.blk, fail)
    IN  IF dv.err # Nil \/ dv.blk = "" THEN R(dv.err, "", <<>>, nbd, tables)
        ELSE IF me # Nil THEN R(me, "", <<>>, nbd, tables)
        ELSE IF um.err # Nil THEN um
        ELSE R(un.err, "", um.calls \o un.calls, un.nbd, un.tables)

(***************************************************************************)
(* The Dev state machine                                                   *)
(***************************************************************************)
FsArgs == {"", "xfs"}

\* The number of mounts of mapped devices our namespace holds at a time.
MaxMounts == 1
DevMounts == Len(SelectSeq(tables[SelfNs], LAMBDA l : l.Source \in Blks))

Ret(op, d, mp, r) == [op |-> op, dev |-> d, mp |-> mp, err |-> r.err, out |-> r.out]

Done(op, d, mp, r) ==
    /\ nbd' = r.nbd
    /\ tables' = r.tables
    /\ ret' = Ret(op, d, mp, r)
    /\ kcalls' = r.calls
    /\ UNCHANGED <<procs, toolVars, clock, drvVars, restVars>>

Map(d) ==
    \E fail \in {"none", "list", "map"} :
        Done("Map", d, "", DevMap(d, fail))

Mount(d, mp, flags) ==
    \E fs \in FsArgs, fail \in {"none", "list", "mount"} :
        /\ DevMounts < MaxMounts
        /\ Done("Mount", d, mp, DevMount(d, mp, fs, flags, fail))

MapAndMount(d, mp, flags) ==
    \E fs \in FsArgs, fail \in {"none", "list", "map", "mount"} :
        /\ DevMounts < MaxMounts
        /\ Done("MapAndMount", d, mp, devMapAndMount(d, mp, fs, flags, fail))

Unmount(d, mp) ==
    \E fail \in {"none", "list", "umount"} :
        Done("Unmount", d, mp, devUnmount(d, mp, fail))

Unmap(d) ==
    \E fail \in {"none", "list", "unmap"} :
        Done("Unmap", d, "", devUnmap(d, fail))

UnmountAndUnmap(d, mp) ==
    \E fail \in {"none", "list", "umount", "unmap"} :
        Done("UnmountAndUnmap", d, mp, devUnmountAndUnmap(d, mp, fail))

\* The rest of the host: a process in a private namespace mounts or unmounts a
\* mapped device.
EnvRet == [op |-> "env", dev |-> Img, mp |-> "", err |-> Nil, out |-> ""]

InNs(ns, blk) == \E i \in 1..Len(tables[ns]) : tables[ns][i].Source = blk

ForeignMount(ns, blk) ==
    /\ IsDevice(nbd, blk)
    /\ ~InNs(ns, blk)
    /\ tables' = [tables EXCEPT ![ns] =
                      Append(@, Line(NextId(@), @[1].ID, blk, MpTarget, 0, 0))]
    /\ ret' = EnvRet
    /\ kcalls' = <<>>
    /\ UNCHANGED <<nbd, procs, toolVars, clock, drvVars, restVars>>

ForeignUnmount(ns, blk) ==
    /\ InNs(ns, blk)
    /\ tables' = [tables EXCEPT ![ns] =
                      SelectSeq(@, LAMBDA l : ~(l.Source = blk /\ l.Shared = 0 /\ l.Master = 0))]
    /\ tables' # tables
    /\ ret' = EnvRet
    /\ kcalls' = <<>>
    /\ UNCHANGED <<nbd, procs, toolVars, clock, drvVars, restVars>>

\* Process 1 lives in a namespace whose root is a peer of ours, the others in a
\* private one.
PrivateNs == "nsB"
PidNs(pid) == IF pid = 1 THEN "nsA" ELSE PrivateNs

InitDev ==
    /\ nbd = {}
    /\ tables = [ns \in AllNs |->
                    IF ns = PrivateNs THEN <<RootLine(0, 0)>> ELSE <<RootLine(1, 0)>>]
    /\ procs = [pid \in Pids |-> [ns |-> PidNs(pid), nsOk |-> TRUE, tabOk |-> TRUE]]
    /\ ret = [op |-> "init", dev |-> Img, mp |-> "", err |-> Nil, out |-> ""]
    /\ kcalls = <<>>
    /\ ToolIdle
    /\ DriverIdle
    /\ RestIdle

NextDev ==
    \/ \E d \in Devs : Map(d)
    \/ \E d \in Devs, mp \in MountPoints, flags \in Flags : Mount(d, mp, flags)
    \/ \E d \in Devs, mp \in MountPoints, flags \in Flags : MapAndMount(d, mp, flags)
    \/ \E d \in Devs, mp \in MountPoints : Unmount(d, mp)
    \/ \E d \in Devs : Unmap(d)
    \/ \E d \in Devs, mp \in MountPoints : UnmountAndUnmap(d, mp)
    \/ \E blk \in Blks : ForeignMount(PrivateNs, blk)
    \/ \E blk \in Blks : ForeignUnmount(PrivateNs, blk)

SpecDev == InitDev /\ [][NextDev]_vars

(***************************************************************************)
(* Properties of the Dev state machine                                     *)
(***************************************************************************)
CallNames(calls) == {calls[i].call : i \in 1..Len(calls)}
MountCalls(calls) == {calls[i] : i \in {j \in 1..Len(calls) : calls[j].call = "mount"}}

\* The device of d before the step, and what the check for mounts elsewhere
\* says about it before the step.
BlkOf(d) == device(d, "none").blk
Conflict(d, mp) == BlkOf(d) # "" /\ isMountedElsewhere(BlkOf(d), mp) = ErrMountedElsewhere

\* C1: an UnmountAndUnmap whose check finds the device mounted elsewhere returns
\* ErrMountedElsewhere (unless listing the mappings already failed) and issues
\* neither an unmount nor an unmap, leaving mappings and mounts as they were;
\* an UnmountAndUnmap that issues an unmount or an unmap had a clean check, and
\* issues the unmount before the unmap.
C1_UnmountAndUnmapChecked ==
    [][ret'.op = "UnmountAndUnmap" =>
          /\ Conflict(ret'.dev, ret'.mp) =>
                /\ kcalls' = <<>>
                /\ nbd' = nbd /\ tables' = tables
                /\ ret'.err \in {ErrMountedElsewhere, ErrCmd}
          /\ kcalls' # <<>> =>
                /\ BlkOf(ret'.dev) # ""
                /\ isMountedElsewhere(BlkOf(ret'.dev), ret'.mp) = Nil
                /\ \/ kcalls' = <<Call("umount", "", ret'.mp, 0)>>
                   \/ kcalls' = <<Call("nbd unmap", BlkOf(ret'.dev), "", 0)>>
                   \/ kcalls' = <<Call("umount", "", ret'.mp, 0),
                                  Call("nbd unmap", BlkOf(ret'.dev), "", 0)>>]_vars

\* An UnmountAndUnmap has just refused: the device is mounted in the private
\* namespace of another process, and is still mapped and still mounted here.
C1_Witness ==
    /\ ret.op = "UnmountAndUnmap"
    /\ ret.err = ErrMountedElsewhere
    /\ kcalls = <<>>
    /\ BlkOf(ret.dev) # ""
    /\ InNs(PrivateNs, BlkOf(ret.dev))
    /\ isMountedAt(BlkOf(ret.dev), ret.mp).mounted

\* C2: the flags Snapshot.Mount passes to the kernel mount hold the read-only
\* bit, whatever flags the caller gave.
C2_SnapshotMountReadOnly ==
    (ret.op = "Mount" /\ ret.dev.kind = "Snapshot") =>
        \A c \in MountCalls(kcalls) : BitAnd(c.flags, MS_RDONLY) = MS_RDONLY

\* C3: when Snapshot.MapAndMount had to map the snapshot first, the kernel
\* mount that follows the map is read-only, whatever flags the caller gave.
C3_SnapshotMapAndMountReadOnly ==
    (ret.op = "MapAndMount" /\ ret.dev.kind = "Snapshot" /\ "nbd map" \in CallNames(kcalls)) =>
        \A c \in MountCalls(kcalls) : BitAnd(c.flags, MS_RDONLY) = MS_RDONLY

\* C4: of two successive successful Map() calls on one device, the second
\* requests no mapping and returns the device path the first returned.
C4_MapIdempotent ==
    [][(/\ ret.op = "Map" /\ ret.err = Nil
        /\ ret'.op = "Map" /\ ret'.err = Nil /\ ret'.dev = ret.dev) =>
          (kcalls' = <<>> /\ nbd' = nbd /\ ret'.out = ret.out)]_vars

(***************************************************************************)
(* isMountedElsewhere over drawn mount tables and processes                *)
(***************************************************************************)
ScanBlk == BlkPaths[1]

\* Propagation of a mount made under a root: shared under a shared root (in a
\* peer group of its own), a slave under a slave root, private otherwise.
Under(root, id, parent, mp) ==
    Line(id, parent, ScanBlk, mp,
         IF root.Shared # 0 THEN root.Shared + 2 ELSE 0,
         IF root.Shared = 0 /\ root.Master # 0 THEN root.Master + 2 ELSE 0)

\* The tables a namespace may have: without the device, with the device on the
\* target or on another path, with the device on the target and a part of it
\* bound below the target, with a line that does not parse, and with the
\* device on the target in a mount that was made private afterwards.
Shape(root, shape) ==
    CASE shape = "none"   -> <<root>>
      [] shape = "target" -> <<root, Under(root, 2, 1, MpTarget)>>
      [] shape = "other"  -> <<root, Under(root, 2, 1, MpOther)>>
      [] shape = "nested" -> <<root, Under(root, 2, 1, MpTarget), Under(root, 3, 2, MpSub)>>
      [] shape = "bad"    -> <<root, Under(root, 2, 1, MpTarget), BadLine>>
      [] shape = "private" -> <<root, Line(2, 1, ScanBlk, MpTarget, 0, 0)>>

SelfTables ==
    {Shape(RootLine(sh, 0), shape) :
        sh \in {0, 1}, shape \in {"none", "target", "other", "nested", "bad"}}
PeerTables ==
    {Shape(r, shape) :
        r \in {RootLine(1, 0), RootLine(0, 0), RootLine(0, 1), RootLine(2, 0)},
        shape \in {"none", "target", "nested", "bad", "private"}}
PrivateTables == {Shape(RootLine(0, 0), shape) : shape \in {"none", "target"}}

\* Process 1 is in nsA and may end during the scan; the others are alive, in any
\* namespace.
ProcChoices(pid) ==
    IF pid = 1
    THEN {[ns |-> "nsA", nsOk |-> TRUE, tabOk |-> TRUE],
          [ns |-> "nsA", nsOk |-> TRUE, tabOk |-> FALSE],
          [ns |-> "nsA", nsOk |-> FALSE, tabOk |-> FALSE]}
    ELSE {[ns |-> n, nsOk |-> TRUE, tabOk |-> TRUE] : n \in AllNs}

ScanMountPoints == {MpTarget, ""}

InitScan ==
    /\ nbd = {Row(Img, ScanBlk, FALSE)}
    /\ \E st \in SelfTables, pt \in PeerTables, vt \in PrivateTables :
          tables = [ns \in AllNs |-> IF ns = SelfNs THEN st ELSE IF ns = PrivateNs THEN vt ELSE pt]
    /\ procs \in {f \in [Pids -> UNION {ProcChoices(pid) : pid \in Pids}] :
                     \A pid \in Pids : f[pid] \in ProcChoices(pid)}
    /\ ret = [op |-> "init", dev |-> Img, mp |-> "", err |-> Nil, out |-> ""]
    /\ kcalls = <<>>
    /\ ToolIdle
    /\ DriverIdle
    /\ RestIdle

Scan(blk, mp) ==
    /\ ret' = [op |-> "isMountedElsewhere", dev |-> Img, mp |-> mp,
               err |-> isMountedElsewhere(blk, mp), out |-> blk]
    /\ UNCHANGED <<nbd, tables, procs, kcalls, toolVars, clock, drvVars, restVars>>

NextScan == \E mp \in ScanMountPoints : Scan(ScanBlk, mp)

SpecScan == InitScan /\ [][NextScan]_vars

\* What the tables say, read line by line.
WellFormed(ns) == \A i \in 1..Len(tables[ns]) : tables[ns][i].ok
DevLines(ns, blk) == {i \in 1..Len(tables[ns]) : tables[ns][i].Source = blk}
LiveNs == {procs[pid].ns : pid \in {q \in Pids : procs[q].nsOk /\ procs[q].tabOk}}

\* The device is mounted on mp in our namespace and nowhere else.
OnlyLocalAt(blk, mp) ==
    /\ \A ns \in AllNs : WellFormed(ns)
    /\ \A ns \in AllNs \ {SelfNs} : DevLines(ns, blk) = {}
    /\ DevLines(SelfNs, blk) # {}
    /\ \A i \in DevLines(SelfNs, blk) : tables[SelfNs][i].MountPoint = mp

\* Our namespace has the device on a path other than mp.
LocalOther(blk, mp) ==
    /\ WellFormed(SelfNs)
    /\ \E i \in DevLines(SelfNs, blk) : tables[SelfNs][i].MountPoint # mp

\* A live process in another namespace has the device mounted, and neither that
\* mount nor any other mount of that namespace is in a peer group or a slave.
ForeignIsolated(blk) ==
    \E ns \in LiveNs \ {SelfNs} :
        /\ WellFormed(ns)
        /\ DevLines(ns, blk) # {}
        /\ \A i \in 1..Len(tables[ns]) : tables[ns][i].Shared = 0 /\ tables[ns][i].Master = 0

\* C6: isMountedElsewhere(dev, mp) returns no error when the only mount of dev
\* in any namespace is on mp in our namespace, and ErrMountedElsewhere when our
\* namespace has dev on another path or when a namespace outside every peer
\* group has dev mounted.
C6_IsMountedElsewhere ==
    ret.op = "isMountedElsewhere" =>
        /\ OnlyLocalAt(ret.out, ret.mp) => ret.err = Nil
        /\ LocalOther(ret.out, ret.mp) => ret.err = ErrMountedElsewhere
        /\ (WellFormed(SelfNs) /\ ForeignIsolated(ret.out)) => ret.err = ErrMountedElsewhere

(***************************************************************************)
(* rbd-snap: snap and prune over the images that match the patterns        *)
(***************************************************************************)
ErrBadPattern == "ErrBadPattern"
ErrInvalidPattern == "invalid pattern"
ErrAlreadyExists == "ErrAlreadyExists"
ErrCreateTime == "error parsing create time"
ErrJoined == "errors"              \* errCollector.err(): the messages, joined
                                   \* (batch.joined keeps them, one a line)
ErrPanic == "panic"                \* a call of a nil func value

Img2 == [kind |-> "Image", image |-> "data2", snap |-> "-"]
PoolImages == {Img, Img2}
Prefix == "rbd-snap"

\* Instants are 1..MaxTime; 0 is the zero time.Time.
MaxTime == 3
Instants == 0..MaxTime

\* time.Format(time.RFC3339) and time.Parse(time.RFC3339, _)
Format(t) == "2020-01-01T00:00:0" \o ToString(t) \o "Z"
Parse(str) ==
    IF \E t \in Instants : Format(t) = str
    THEN [err |-> Nil, t |-> CHOOSE t \in Instants : Format(t) = str]
    ELSE [err |-> ErrParse, t |-> 0]

\* strings.TrimPrefix over the names of the model
Rests == {Format(t) : t \in Instants}
TrimPrefix(str, prefix) ==
    IF \E rest \in Rests : str = prefix \o rest
    THEN CHOOSE rest \in Rests : str = prefix \o rest
    ELSE str

StampedName(t) == Prefix \o "_" \o Format(t)
SnapDev(sn) == [kind |-> "Snapshot", image |-> sn.image, snap |-> sn.name]

\* The patterns given on the command line: pool "/" glob.
PoolNames == {PoolName, "backup"}
Globs == {"data*", "data1", "["}
PatternArgs == {"docker/data*", "docker/data1", "docker/[", "data1", "backup/*"}

\* strings.SplitN(pattern, "/", 2)
SplitN(pattern) ==
    IF \E pl \in PoolNames, g \in Globs \cup {"*"} : pattern = pl \o "/" \o g
    THEN LET pg == CHOOSE pg \in PoolNames \X (Globs \cup {"*"}) :
                       pattern = pg[1] \o "/" \o pg[2]
         IN  <<pg[1], pg[2]>>
    ELSE <<pattern>>

\* filepath.Match(glob, name) over the image names of the model
Match(glob, name) ==
    CASE glob = "[" -> [err |-> ErrBadPattern, m |-> FALSE]
      [] glob = "data1" -> [err |-> Nil, m |-> name = "data1"]
      [] OTHER -> [err |-> Nil, m |-> TRUE]

\* pool.Images(): "rbd ls" of the pool
Images(poolName, fail) ==
    IF fail = "images" \/ poolName # PoolName THEN [err |-> ErrCmd, imgs |-> {}]
    ELSE [err |-> Nil, imgs |-> PoolImages]

\* The errors that the goroutines of a set of failures add to an errCollector,
\* one for each failure, in the order the mutex lets them in.
RECURSIVE Added(_)
Added(failures) ==
    IF failures = {} THEN <<>>
    ELSE LET f == CHOOSE f \in failures : TRUE
         IN  <<f.err>> \o Added(failures \ {f})

\* loopImgs up to the calls of f: the errors of the patterns and the images
\* that f is called on, one call for each pattern an image matches.
loopImgs(patterns, fail) ==
    LET parts(p) == SplitN(p)
        valid == {p \in patterns : Len(parts(p)) = 2}
        listed == {p \in valid : Images(parts(p)[1], fail).err = Nil}
        pairs == {<<p, i>> : p \in listed, i \in PoolImages}
    IN  [errs |-> Added({[by |-> p, err |-> ErrInvalidPattern] : p \in patterns \ valid}
                        \cup {[by |-> p, err |-> ErrCmd] : p \in valid \ listed}
                        \cup {[by |-> y[1] \o " " \o y[2].image, err |-> ErrBadPattern] :
                                y \in {x \in pairs :
                                    Match(parts(x[1])[2], x[2].image).err # Nil}}),
         work |-> {x \in pairs : LET m == Match(parts(x[1])[2], x[2].image)
                                 IN  m.err = Nil /\ m.m}]

\* errCollector.err()
errOf(errs) == IF errs = <<>> THEN Nil ELSE ErrJoined

\* Image.Snapshots(): "rbd snap list"
Snapshots(img, fail) ==
    IF fail = "snaplist" THEN [err |-> ErrCmd, snaps |-> {}]
    ELSE [err |-> Nil, snaps |-> {sn \in snaps : sn.image = img.image}]

\* The outcome of one call of f: the error, the calls, and the state it leaves.
T(err, calls, n, t, sn) ==
    [err |-> err, calls |-> calls, nbd |-> n, tables |-> t, snaps |-> sn]

ClusterCall(name, image, snapName) == Call(name, image, snapName, 0)

\* devInfo: "rbd info" of the snapshot
devInfo(sn, fail) ==
    IF fail = "info" \/ sn \notin snaps THEN [err |-> ErrCmd, created |-> 0]
    ELSE [err |-> Nil, created |-> sn.created]

\* devRemove: "rbd snap remove"
devRemove(sn, cur, fail) ==
    IF fail = "remove" \/ sn \notin cur THEN [err |-> ErrCmd, snaps |-> cur]
    ELSE [err |-> Nil, snaps |-> cur \ {sn}]

\* The mutation of C35: pruneF that removes the snapshot without the unmount
\* and unmap before it.
pruneAnyway(sn, pruneBefore, fail) ==
    LET rm == devRemove(sn, snaps, fail)
    IN  T(rm.err, <<ClusterCall("snap remove", sn.image, sn.name)>>, nbd, tables, rm.snaps)

\* pruneF of prune
pruneF(sn, pruneBefore, fail) ==
    LET c == <<ClusterCall("snap remove", sn.image, sn.name)>>
        from(info, parsed, uu, rm) ==
            IF info.err # Nil THEN T(info.err, <<>>, nbd, tables, snaps)
            ELSE IF info.created = 0 /\ parsed.err # Nil
                 THEN T(ErrCreateTime, <<>>, nbd, tables, snaps)
            ELSE IF pruneBefore < (IF info.created = 0 THEN parsed.t ELSE info.created)
                 THEN T(Nil, <<>>, nbd, tables, snaps)
            ELSE IF uu.err # Nil THEN T(uu.err, uu.calls, uu.nbd, uu.tables, snaps)
            ELSE T(rm.err, uu.calls \o c, uu.nbd, uu.tables, rm.snaps)
    IN  from(devInfo(sn, fail), Parse(TrimPrefix(sn.name, Prefix \o "_")),
             devUnmountAndUnmap(SnapDev(sn), "", fail), devRemove(sn, snaps, fail))

\* fsFreezeBlk: the freeze of the first local mount of blk, and the func that
\* undoes it ("nil" when an error is returned before a func is made).
fsFreezeBlk(blk, fail) ==
    LET gm == getMounts(blk)
        me == isMountedElsewhere(blk, "")
        mountPoint == gm.mounts[1].m.MountPoint
    IN  IF gm.err # Nil
        THEN [err |-> gm.err, unfreeze |-> "nil", calls |-> <<>>, undo |-> <<>>]
        ELSE IF Len(gm.mounts) = 0
             THEN IF me # Nil
                  THEN [err |-> me, unfreeze |-> "nil", calls |-> <<>>, undo |-> <<>>]
                  ELSE [err |-> Nil, unfreeze |-> "func", calls |-> <<>>, undo |-> <<>>]
        ELSE [err |-> IF fail = "freeze" THEN ErrCmd ELSE Nil,
              unfreeze |-> "func",
              calls |-> <<Call("fsfreeze --freeze", blk, mountPoint, 0)>>,
              undo |-> <<Call("fsfreeze --unfreeze", blk, mountPoint, 0)>>]

\* Image.CreateSnapshot: "rbd snap create"
CreateSnapshot(img, name, fail) ==
    LET c == <<ClusterCall("snap create", img.image, name)>>
    IN  IF fail = "create" THEN T(ErrCmd, c, nbd, tables, snaps)
        ELSE IF \E sn \in snaps : sn.image = img.image /\ sn.name = name
             THEN T(ErrAlreadyExists, c, nbd, tables, snaps)
        ELSE T(Nil, c, nbd, tables,
               snaps \cup {[image |-> img.image, name |-> name, created |-> clock]})

\* Image.CreateSnapshot in the place of Image.CreateConsistentSnapshot.
CreateSnapshotOnly(img, name, onlyIfMapped, fail) == CreateSnapshot(img, name, fail)

\* Image.CreateConsistentSnapshot. The deferred unfreeze runs when the function
\* returns; deferring a nil func panics there.
CreateConsistentSnapshot(img, name, onlyIfMapped, fail) ==
    LET frozen(fz, cs) ==
            IF fz.unfreeze = "nil" THEN T(ErrPanic, fz.calls, nbd, tables, snaps)
            ELSE IF fz.err # Nil THEN T(fz.err, fz.calls \o fz.undo, nbd, tables, snaps)
            ELSE T(cs.err, fz.calls \o cs.calls \o fz.undo, cs.nbd, cs.tables, cs.snaps)
        from(dv, cs) ==
            IF dv.err # Nil THEN T(dv.err, <<>>, nbd, tables, snaps)
            ELSE IF onlyIfMapped /\ dv.blk = "" THEN T(ErrNotMapped, <<>>, nbd, tables, snaps)
            ELSE IF dv.blk = "" THEN cs
            ELSE frozen(fsFreezeBlk(dv.blk, fail), cs)
    IN  from(device(img, fail), CreateSnapshot(img, name, fail))

\* snapF of snap
snapF(img, snapName, onlyMapped, fail) ==
    LET from(r) ==
            IF r.err = ErrNotMapped THEN T(Nil, r.calls, r.nbd, r.tables, r.snaps) ELSE r
    IN  from(CreateConsistentSnapshot(img, snapName, onlyMapped, fail))

\* One run of the tool. The goroutines of loopImgs and loopSnaps run f on their
\* items in any order; an item is <<pattern, image or snapshot>>.
PatternSets == {{p} : p \in PatternArgs}

ToolRet(op, err) == [op |-> op, dev |-> Img, mp |-> "", err |-> err, out |-> ""]

Step(r) ==
    /\ nbd' = r.nbd
    /\ tables' = r.tables
    /\ snaps' = r.snaps
    /\ kcalls' = kcalls \o r.calls
    /\ UNCHANGED <<procs, clock, drvVars, restVars>>

PruneStart(age, patterns) ==
    \E fail \in {"none", "images", "snaplist"} :
        LET plan == loopImgs(patterns, fail)
            lists == {<<x, Snapshots(x[2], fail)>> : x \in plan.work}
        IN  /\ batch.tool = "idle"
            /\ batch' = [tool |-> "prune", patterns |-> patterns, before |-> clock - age,
                         name |-> "", onlyMapped |-> FALSE,
                         todo |-> UNION {{<<l[1][1], sn>> : sn \in l[2].snaps} : l \in lists},
                         errs |-> plan.errs \o
                             Added({[by |-> l[1][2].image, err |-> l[2].err] :
                                       l \in {k \in lists : k[2].err # Nil}}),
                         start |-> snaps, clean |-> fail = "none", joined |-> <<>>,
                         frozen |-> {}]
            /\ ret' = ToolRet("running", Nil)
            /\ kcalls' = <<>>
            /\ UNCHANGED <<nbd, tables, procs, snaps, clock, drvVars, restVars>>

PruneSnap(item) ==
    \E fail \in {"none", "info", "list", "umount", "unmap", "remove"} :
        \E r \in {pruneF(item[2], batch.before, fail)} :
            /\ batch.tool = "prune"
            /\ item \in batch.todo
            /\ Step(r)
            /\ batch' = [batch EXCEPT !.todo = @ \ {item},
                                      !.errs = IF r.err = Nil THEN @ ELSE Append(@, r.err),
                                      !.clean = @ /\ fail = "none"]
            /\ ret' = ret

SnapStart(onlyMapped, patterns) ==
    \E fail \in {"none", "images"} :
        LET plan == loopImgs(patterns, fail)
        IN  /\ batch.tool = "idle"
            /\ batch' = [tool |-> "snap", patterns |-> patterns, before |-> 0,
                         name |-> StampedName(clock), onlyMapped |-> onlyMapped,
                         todo |-> plan.work, errs |-> plan.errs,
                         start |-> snaps, clean |-> fail = "none", joined |-> <<>>,
                         frozen |-> {}]
            /\ ret' = ToolRet("running", Nil)
            /\ kcalls' = <<>>
            /\ UNCHANGED <<nbd, tables, procs, snaps, clock, drvVars, restVars>>

\* The mountpoints that the calls of one snapshot leave frozen: those of a
\* freeze that succeeded with no unfreeze after it.
Frozen(calls, fail) ==
    {calls[i].mp : i \in {k \in 1..Len(calls) :
        /\ calls[k].call = "fsfreeze --freeze"
        /\ fail # "freeze"
        /\ ~\E j \in (k + 1)..Len(calls) :
               calls[j].call = "fsfreeze --unfreeze" /\ calls[j].mp = calls[k].mp}}

SnapImg(item) ==
    \E fail \in {"none", "list", "freeze", "create"} :
        \E r \in {snapF(item[2], batch.name, batch.onlyMapped, fail)} :
            /\ batch.tool = "snap"
            /\ item \in batch.todo
            /\ Step(r)
            /\ IF r.err = ErrPanic
               THEN /\ batch' = [batch EXCEPT !.tool = "crashed", !.todo = @ \ {item},
                                    !.frozen = @ \cup Frozen(r.calls, fail)]
                    /\ ret' = ToolRet("snap", ErrPanic)
               ELSE /\ batch' = [batch EXCEPT !.todo = @ \ {item},
                                    !.errs = IF r.err = Nil THEN @ ELSE Append(@, r.err),
                                    !.clean = @ /\ fail = "none",
                                    !.frozen = @ \cup Frozen(r.calls, fail)]
                    /\ ret' = ret

\* The wait groups are done: the run returns errs.err().
ToolEnd ==
    /\ batch.tool \in {"prune", "snap"}
    /\ batch.todo = {}
    /\ ret' = ToolRet(batch.tool, errOf(batch.errs))
    /\ batch' = [batch EXCEPT !.tool = "done", !.joined = batch.errs]
    /\ UNCHANGED <<nbd, tables, procs, kcalls, snaps, clock, drvVars, restVars>>

\* The snapshots the cluster holds when the tool starts: snapshots of data1 made
\* by the tool (named for their instant; "rbd info" may lack the timestamp) and
\* one made by hand.
MaxSnaps == 2
SnapCands ==
    UNION {{[image |-> Img.image, name |-> StampedName(t), created |-> c] : c \in {0, t}} :
              t \in 1..MaxTime}
    \cup {[image |-> Img.image, name |-> "manual", created |-> c] : c \in Instants}
SnapSets ==
    {S \in SUBSET SnapCands :
        /\ Cardinality(S) <= MaxSnaps
        /\ \A a, b \in S : a.name = b.name => a = b}

\* A device of the host when the tool starts: not mapped, mapped, mounted in our
\* namespace, or mounted only in a private namespace.
World(base, d, blk, mp, st) ==
    LET n == base.nbd \cup {Row(d, blk, d.kind = "Snapshot")}
    IN  CASE st = "unmapped" -> base
          [] st = "mapped"   -> [nbd |-> n, tables |-> base.tables]
          [] st = "mounted"  -> [nbd |-> n, tables |-> kMount(base.tables, blk, mp)]
          [] st = "foreign"  ->
                [nbd |-> n,
                 tables |-> [base.tables EXCEPT ![PrivateNs] =
                                Append(@, Line(NextId(@), @[1].ID, blk, mp, 0, 0))]]

ToolWorld(firsts, seconds) ==
    \E st \in firsts, sec \in seconds :
        LET base == [nbd |-> {},
                     tables |-> [ns \in AllNs |->
                                    IF ns = PrivateNs THEN <<RootLine(0, 0)>>
                                    ELSE <<RootLine(1, 0)>>]]
            w1 == World(base, Img, BlkPaths[1], MpTarget, st)
            w2 == World(w1, sec.d, BlkPaths[2], MpOther, sec.st)
        IN  nbd = w2.nbd /\ tables = w2.tables

ToolRest ==
    /\ clock = MaxTime
    /\ procs = [pid \in Pids |-> [ns |-> PidNs(pid), nsOk |-> TRUE, tabOk |-> TRUE]]
    /\ ret = ToolRet("init", Nil)
    /\ kcalls = <<>>
    /\ batch = NoBatch
    /\ DriverIdle
    /\ RestIdle

\* prune: data1 is not mapped; one of its snapshots may be.
InitPrune ==
    /\ snaps \in SnapSets
    /\ ToolWorld({"unmapped"},
                 {[d |-> Img2, st |-> "unmapped"]}
                 \cup {[d |-> SnapDev(sn), st |-> st] :
                          sn \in snaps, st \in {"mapped", "mounted", "foreign"}})
    /\ ToolRest

NextPrune ==
    \/ \E age \in Instants, patterns \in PatternSets : PruneStart(age, patterns)
    \/ \E item \in batch.todo : PruneSnap(item)
    \/ ToolEnd

SpecPrune == InitPrune /\ [][NextPrune]_vars

\* snap: data1 and data2 in any state; the cluster holds at most one snapshot.
InitSnap ==
    /\ snaps \in {S \in SnapSets : Cardinality(S) <= 1}
    /\ ToolWorld({"unmapped", "mapped", "mounted", "foreign"},
                 {[d |-> Img2, st |-> st] : st \in {"unmapped", "mapped", "mounted"}})
    /\ ToolRest

NextSnap ==
    \/ \E onlyMapped \in BOOLEAN, patterns \in PatternSets : SnapStart(onlyMapped, patterns)
    \/ \E item \in batch.todo : SnapImg(item)
    \/ ToolEnd

SpecSnap == InitSnap /\ [][NextSnap]_vars

\* The creation time prune goes by: the timestamp of "rbd info", or the one in
\* the name when the info has none.
Created(sn) ==
    IF sn.created # 0 THEN sn.created ELSE Parse(TrimPrefix(sn.name, Prefix \o "_")).t

\* C7: when a prune with cutoff T = batch.before has run without an error,
\* exactly the snapshots whose timestamp is strictly earlier than T are removed:
\* every other snapshot, one whose timestamp equals T included, is retained.
C7_PruneExactlyOlder ==
    (ret.op = "prune" /\ batch.tool = "done" /\ ret.err = Nil) =>
        \A sn \in batch.start : (sn \notin snaps) <=> (Created(sn) < batch.before)

\* The batch of C10: "snap" with onlyMapped over docker/data*, data1 mounted in
\* our namespace, data2 not mapped, no command failing, the snapshot name new.
C10_Scenario ==
    /\ ret.op = "snap" /\ batch.tool = "done"
    /\ batch.onlyMapped /\ batch.patterns = {"docker/data*"} /\ batch.clean
    /\ BlkOf(Img) # "" /\ isMountedAt(BlkOf(Img), MpTarget).mounted
    /\ BlkOf(Img2) = ""
    /\ ~\E sn \in batch.start : sn.image = Img.image /\ sn.name = batch.name

\* C10: in that batch exactly one snapshot is created, on data1, between exactly
\* one freeze and one unfreeze of its mountpoint; data2 is skipped and the
\* result is success.
C10_SnapOnlyMapped ==
    C10_Scenario =>
        /\ ret.err = Nil
        /\ snaps \ batch.start =
              {[image |-> Img.image, name |-> batch.name, created |-> clock]}
        /\ kcalls = <<Call("fsfreeze --freeze", BlkOf(Img), MpTarget, 0),
                      ClusterCall("snap create", Img.image, batch.name),
                      Call("fsfreeze --unfreeze", BlkOf(Img), MpTarget, 0)>>

C10_Witness == C10_Scenario /\ ret.err = Nil /\ Len(kcalls) = 3

(***************************************************************************)
(* rbddriver: RbdImage, RbdLock and the driver's Mount and Unmount          *)
(***************************************************************************)
ErrLocked == "cannot map a locked image"
ErrNoImage == "could not find image object"
ErrMounted == "cannot unmap: currently mounted"

Hostname == "me"
Hosts == {Hostname, "other"}
MountIds == {"c1", "c2"}
VolumeMp == "/var/lib/docker-volumes/rbd/" \o PoolName \o "/" \o Img.image

\* DrpNoUsrMaxCnt; the lock's time to live (DRP_LOCK_REFRESH), in instants.
DrpNoUsrMaxCnt == 3
ExpiresIn == 2

\* The lock id: hostname + "," + expires.Format(time.RFC3339Nano), and its
\* fields as strings.Split(k, ",") and time.Parse give them back.
LockTimes == 0..(MaxTime + ExpiresIn)
FormatNano(t) == "2020-01-01T00:00:0" \o ToString(t) \o ".000000001Z"
Lid(host, t) == host \o "," \o FormatNano(t)
Split(lid) ==
    LET ht == CHOOSE ht \in Hosts \X LockTimes : lid = Lid(ht[1], ht[2])
    IN  <<ht[1], FormatNano(ht[2])>>
ParseNano(str) == CHOOSE t \in LockTimes : FormatNano(t) = str
LockHost(lid) == Split(lid)[1]
LockExp(lid) == ParseNano(Split(lid)[2])

\* strings.TrimSpace over the outputs of "rbd map"
TrimSpace(str) ==
    IF \E b \in Blks : str = b \o "\n" THEN CHOOSE b \in Blks : str = b \o "\n" ELSE str

\* The state a handler works on: the kernel, the lock list, and the fields of
\* the RbdImage and its RbdLock, with the calls issued so far.
Cur ==
    [nbd |-> nbd, tables |-> tables, locks |-> locks, users |-> drv.users,
     noUsrCnt |-> drv.noUsrCnt, active |-> drv.active, open |-> drv.open,
     loop |-> drv.loop, calls |-> <<>>]

Issue(s, c) == [s EXCEPT !.calls = Append(@, c)]
E(err, s) == [err |-> err, s |-> s]

\* GetMappings: "rbd showmapped"
GetMappings(s, fail) ==
    IF fail = "showmapped" THEN [err |-> ErrCmd, maps |-> {}]
    ELSE [err |-> Nil, maps |-> {m \in s.nbd : m.Pool = PoolName}]

IsMapped(s, fail) ==
    LET g == GetMappings(s, fail)
    IN  [err |-> g.err, b |-> \E m \in g.maps : m.Name = Img.image]

GetDevice(s, fail) ==
    LET g == GetMappings(s, fail)
    IN  IF g.err # Nil \/ ~\E m \in g.maps : m.Name = Img.image
        THEN [err |-> ErrCmd, dev |-> ""]
        ELSE [err |-> Nil, dev |-> (CHOOSE m \in g.maps : m.Name = Img.image).Device]

\* GetMounts: /proc/self/mounts as a map from the device to its last line
GetMounts(s, fail) ==
    IF fail = "mounts" THEN [err |-> ErrOpen, lines |-> <<>>]
    ELSE [err |-> Nil, lines |-> s.tables[SelfNs]]

IsMounted(s, fail) ==
    LET m == IsMapped(s, fail)
        d == GetDevice(s, fail)
        g == GetMounts(s, fail)
    IN  IF m.err # Nil THEN [err |-> m.err, b |-> FALSE]
        ELSE IF ~m.b THEN [err |-> Nil, b |-> FALSE]
        ELSE IF d.err # Nil THEN [err |-> d.err, b |-> FALSE]
        ELSE IF g.err # Nil THEN [err |-> g.err, b |-> FALSE]
        ELSE [err |-> Nil, b |-> \E i \in 1..Len(g.lines) : g.lines[i].Source = d.dev]

GetMountPoint(s, fail) ==
    LET d == GetDevice(s, fail)
        g == GetMounts(s, fail)
        at == {i \in 1..Len(g.lines) : g.lines[i].Source = d.dev}
    IN  IF d.err # Nil THEN [err |-> d.err, mp |-> ""]
        ELSE IF g.err # Nil THEN [err |-> g.err, mp |-> ""]
        ELSE IF at = {} THEN [err |-> ErrCmd, mp |-> ""]
        ELSE [err |-> Nil, mp |-> g.lines[CHOOSE i \in at : \A j \in at : j <= i].MountPoint]

\* GetAllLocks: "rbd lock list"
GetAllLocks(s, fail) ==
    IF fail = "locklist" THEN [err |-> ErrCmd, locks |-> {}]
    ELSE [err |-> Nil, locks |-> s.locks]

GetValidLocks(s, fail) ==
    LET g == GetAllLocks(s, fail)
    IN  [err |-> g.err, locks |-> {k \in g.locks : clock < LockExp(k)}]

IsLocked(s, fail) ==
    LET g == GetValidLocks(s, fail)
    IN  [err |-> g.err, b |-> \E k \in g.locks : LockHost(k) # Hostname]

\* removeLock for each lock of ids: "rbd lock rm"; an error is logged.
removeLocks(s, ids, fail) ==
    IF fail = "lockrm" THEN s ELSE [s EXCEPT !.locks = @ \ ids]

reapLocks(s, fail) ==
    LET g == GetAllLocks(s, fail)
    IN  IF g.err # Nil THEN E(g.err, s)
        ELSE E(Nil, removeLocks(s, {k \in g.locks : clock > LockExp(k)}, fail))

\* InheritLock: the RbdLock is made, the old locks are reaped and the refresh
\* loop is started.
InheritLock(s, fail) ==
    LET rl == [s EXCEPT !.open = TRUE, !.noUsrCnt = 0]
        r == reapLocks(rl, fail)
    IN  IF r.err # Nil THEN r ELSE E(Nil, [r.s EXCEPT !.loop = "start"])

AcquireLock(s, fail) ==
    LET l == IsLocked(s, fail)
    IN  IF l.err # Nil THEN E(l.err, s)
        ELSE IF l.b THEN E(ErrLocked, s)
        ELSE InheritLock(s, fail)

lock(s, fail) ==
    LET a == AcquireLock(s, fail)
    IN  IF a.err # Nil THEN E(a.err, s) ELSE E(Nil, [a.s EXCEPT !.active = TRUE])

release(s, fail) ==
    LET closed == [s EXCEPT !.open = FALSE]
        g == GetAllLocks(closed, fail)
    IN  IF g.err # Nil THEN E(g.err, closed)
        ELSE E(Nil, removeLocks(closed, {k \in g.locks : LockHost(k) = Hostname}, fail))

unlock(s, fail) ==
    LET r == release(s, fail)
    IN  IF ~s.active THEN E(Nil, s)
        ELSE IF r.err # Nil THEN r
        ELSE E(Nil, [r.s EXCEPT !.active = FALSE])

FirstFreeOf(n) == BlkPaths[CHOOSE i \in 1..Len(BlkPaths) :
                      /\ \A m \in n : m.Device # BlkPaths[i]
                      /\ \A j \in 1..(i - 1) : \E m \in n : m.Device = BlkPaths[j]]

D(err, dev, s) == [err |-> err, dev |-> dev, s |-> s]

\* RbdImage.mapDevice. "rbd map" prints the device path and a newline.
mapDevice(s, fail) ==
    LET c == Call("rbd map", "", "", 0)
        out(n) == FirstFreeOf(n) \o "\n"
        mapped(ls) == Issue([ls EXCEPT !.nbd = @ \cup {Row(Img, FirstFreeOf(@), FALSE)}], c)
        from(il, im, gd, lk) ==
            IF il.err # Nil THEN D(il.err, "", s)
            ELSE IF il.b THEN D(ErrLocked, "", s)
            ELSE IF im.err # Nil THEN D(im.err, "", s)
            ELSE IF im.b
                 THEN IF gd.err # Nil THEN D(gd.err, "", s)
                      ELSE IF lk.err # Nil THEN D(lk.err, "", s)
                      ELSE D(Nil, gd.dev, lk.s)
            ELSE IF lk.err # Nil THEN D(lk.err, "", s)
            ELSE IF fail = "map" THEN D(ErrCmd, "", unlock(Issue(lk.s, c), fail).s)
            ELSE D(Nil, TrimSpace(out(lk.s.nbd)), mapped(lk.s))
    IN  from(IsLocked(s, fail), IsMapped(s, fail), GetDevice(s, fail), lock(s, fail))

\* RbdImage.unmapDevice
unmapDevice(s, fail) ==
    LET im == IsMounted(s, fail)
        mp == IsMapped(s, fail)
        c == Call("rbd unmap", "", "", 0)
        un == Issue([s EXCEPT !.nbd = {m \in @ : ~(m.Pool = PoolName /\ m.Name = Img.image)}], c)
    IN  IF im.err # Nil THEN E(im.err, s)
        ELSE IF im.b THEN E(ErrMounted, s)
        ELSE IF mp.err # Nil THEN E(mp.err, s)
        ELSE IF mp.b /\ fail = "unmap" THEN E(ErrCmd, Issue(s, c))
        ELSE unlock(IF mp.b THEN un ELSE s, fail)

M(err, out, s) == [err |-> err, out |-> out, s |-> s]

\* RbdImage.Mount that maps and mounts whether or not the image is mounted.
MountAlways(s, mountid, fail) ==
    LET c(dev) == Call("mount", dev, VolumeMp, MS_NOATIME)
        from(md) ==
            IF md.err # Nil THEN M(md.err, VolumeMp, md.s)
            ELSE M(Nil, VolumeMp,
                   [Issue([md.s EXCEPT !.tables = kMount(@, md.dev, VolumeMp)], c(md.dev))
                       EXCEPT !.users = @ \cup {mountid}])
    IN  from(mapDevice(s, fail))

\* RbdImage.Mount. The deferred unmapDevice runs when an error is returned
\* after the device was mapped.
RbdImageMount(s, mountid, fail) ==
    LET c(dev) == Call("mount", dev, VolumeMp, MS_NOATIME)
        from(im, gp, md) ==
            IF im.err # Nil THEN M(im.err, "", s)
            ELSE IF im.b
                 THEN IF gp.err # Nil THEN M(gp.err, "", s)
                      ELSE M(Nil, gp.mp, [s EXCEPT !.users = @ \cup {mountid}])
            ELSE IF md.err # Nil THEN M(md.err, VolumeMp, md.s)
            ELSE IF fail = "blkid" THEN M(ErrCmd, md.dev, unmapDevice(md.s, fail).s)
            ELSE IF fail = "mount"
                 THEN M(ErrSyscall, VolumeMp, unmapDevice(Issue(md.s, c(md.dev)), fail).s)
            ELSE M(Nil, VolumeMp,
                   [Issue([md.s EXCEPT !.tables = kMount(@, md.dev, VolumeMp)], c(md.dev))
                       EXCEPT !.users = @ \cup {mountid}])
    IN  from(IsMounted(s, fail), GetMountPoint(s, fail), mapDevice(s, fail))

\* GetContainersUsingImage: the mount ids of the running containers whose
\* config names the image (read from docker's container files).
GetContainersUsingImage(fail) ==
    IF fail = "docker" THEN [err |-> ErrOpen, ids |-> {}] ELSE [err |-> Nil, ids |-> docker]

\* rbdUsers.reconcile
reconcile(s, fail) ==
    LET g == GetContainersUsingImage(fail)
    IN  IF g.err # Nil THEN E(g.err, s) ELSE E(Nil, [s EXCEPT !.users = g.ids])

\* RbdImage.Unmount from its test of img.users.len() on
unmountRest(s1, fail) ==
    LET c(at) == Call("umount", "", at, 0)
        unmounted(s2, mp, ud) ==
            IF mp.err # Nil THEN E(mp.err, s2)
            ELSE IF mp.b /\ ud.err # Nil THEN ud
            ELSE unlock(IF mp.b THEN ud.s ELSE s2, fail)
        after(s2) == unmounted(s2, IsMapped(s2, fail), unmapDevice(s2, fail))
        from(im, gp) ==
            IF s1.users # {} THEN E(Nil, s1)
            ELSE IF im.err # Nil THEN E(im.err, s1)
            ELSE IF im.b /\ gp.err # Nil THEN E(gp.err, s1)
            ELSE IF im.b /\ fail = "umount" THEN E(ErrSyscall, Issue(s1, c(gp.mp)))
            ELSE after(IF im.b THEN Issue([s1 EXCEPT !.tables = kUnmount(@, gp.mp)], c(gp.mp))
                       ELSE s1)
    IN  from(IsMounted(s1, fail), GetMountPoint(s1, fail))

\* RbdImage.Unmount
RbdImageUnmount(s, mountid, fail) ==
    unmountRest([reconcile(s, fail).s EXCEPT !.users = @ \ {mountid}], fail)

\* RbdLock.addLock: "rbd lock add"
addLock(s, expires, fail) ==
    LET lid == Lid(Hostname, expires)
        c == Call("lock add", "", lid, 0)
    IN  IF fail = "lockadd" THEN [err |-> ErrCmd, lid |-> "", s |-> Issue(s, c)]
        ELSE [err |-> Nil, lid |-> lid, s |-> Issue([s EXCEPT !.locks = @ \cup {lid}], c)]

\* The mutation of C23: the count of idle cycles survives a cycle with a user.
keepCnt(s) == s

\* refreshLock: a cycle that finds a user ends the run of idle cycles.
resetCnt(s) == IF s.noUsrCnt > 0 /\ s.users # {} THEN [s EXCEPT !.noUsrCnt = 0] ELSE s

\* RbdLock.refreshLock after its reconcile; path tells the idle release from
\* the renewal.
refreshRest(s, fail) ==
    LET released(um) == [err |-> um.err, s |-> um.s, path |-> "release"]
        listed(add, g) ==
            IF g.err # Nil THEN [err |-> g.err, s |-> add.s, path |-> "refresh"]
            ELSE [err |-> Nil,
                  s |-> removeLocks(add.s, {k \in g.locks : k # add.lid /\ LockHost(k) = Hostname},
                                    fail),
                  path |-> "refresh"]
        added(add) == listed(add, GetAllLocks(add.s, fail))
        counted(s2) ==
            IF s2.users = {} /\ s2.noUsrCnt > DrpNoUsrMaxCnt
            THEN released(RbdImageUnmount(s2, "", fail))
            ELSE added(addLock(IF s2.users = {} THEN [s2 EXCEPT !.noUsrCnt = @ + 1] ELSE s2,
                               clock + ExpiresIn, fail))
    IN  counted(resetCnt(s))

\* RbdLock.refreshLock
refreshLock(s, fail) == refreshRest(reconcile(s, fail).s, fail)

\* The driver and the refresh loop
DrvRet(op, id, err, out) == [op |-> op, id |-> id, err |-> err, out |-> out]
DrvEnv == DrvRet("env", "", Nil, "")

Apply(s, loaded) ==
    /\ nbd' = s.nbd
    /\ tables' = s.tables
    /\ locks' = s.locks
    /\ drv' = [loaded |-> loaded, users |-> s.users, noUsrCnt |-> s.noUsrCnt,
               active |-> s.active, open |-> s.open, loop |-> s.loop]
    /\ kcalls' = s.calls
    /\ UNCHANGED <<procs, toolVars, clock, docker, restVars>>

MountFails == {"none", "images", "locklist", "map", "mount"}
UnmountFails == {"none", "docker", "umount", "unmap"}
RefreshFails == {"none", "docker", "lockadd", "locklist", "lockrm"}

\* RbdDriver.Mount: the image of rd.mounts, or a newly loaded one, which is
\* kept in rd.mounts when the mount succeeds.
DriverMount(id, fail) ==
        \E r \in {RbdImageMount(IF drv.loaded THEN Cur
                                   ELSE [Cur EXCEPT !.users = {}, !.active = FALSE],
                                  id, fail)} :
            /\ ~drv.loaded => drv.loop \in {"none", "stopped"}
            /\ IF ~drv.loaded /\ fail = "images"
               THEN /\ ret' = DrvRet("Mount", id, ErrCmd, "")
                    /\ kcalls' = <<>>
                    /\ UNCHANGED <<nbd, tables, procs, toolVars, clock, drvVars, restVars>>
               ELSE /\ Apply(r.s, drv.loaded \/ r.err = Nil)
                    /\ ret' = DrvRet("Mount", id, r.err, IF r.err = Nil THEN r.out ELSE "")

\* RbdDriver.Unmount
DriverUnmount(id, fail) ==
        \E r \in {RbdImageUnmount(Cur, id, fail)} :
            IF ~drv.loaded
            THEN /\ ret' = DrvRet("Unmount", id, ErrNoImage, "")
                 /\ kcalls' = <<>>
                 /\ UNCHANGED <<nbd, tables, procs, toolVars, clock, drvVars, restVars>>
            ELSE /\ Apply(r.s, TRUE)
                 /\ ret' = DrvRet("Unmount", id, r.err, "")

\* RbdLock.refreshLoop: the refresh that opens the loop, which ends the loop if
\* it fails
RefreshFirst(fail) ==
        \E r \in {refreshLock(Cur, fail)} :
            /\ drv.loop = "start"
            /\ Apply([r.s EXCEPT !.loop = IF r.err # Nil THEN "stopped" ELSE "ticking"],
                     drv.loaded)
            /\ ret' = DrvRet("refreshLock", "", r.err, r.path)

\* the refresh of a tick, which the select may choose over the closed channel
RefreshTick(fail) ==
        \E r \in {refreshLock(Cur, fail)} :
            /\ drv.loop = "ticking"
            /\ Apply(r.s, drv.loaded)
            /\ ret' = DrvRet("refreshLock", "", r.err, r.path)

\* and the end of the loop once the channel is closed.
LoopExit ==
    /\ drv.loop = "ticking"
    /\ ~drv.open
    /\ drv' = [drv EXCEPT !.loop = "stopped"]
    /\ ret' = DrvEnv
    /\ kcalls' = <<>>
    /\ UNCHANGED <<nbd, tables, procs, toolVars, clock, locks, docker, restVars>>

Tick ==
    /\ clock < MaxTime
    /\ clock' = clock + 1
    /\ ret' = DrvEnv
    /\ kcalls' = <<>>
    /\ UNCHANGED <<nbd, tables, procs, toolVars, drvVars, restVars>>

\* docker starts or stops the container of a mount id.
DockerSet(ids) ==
    /\ docker' = ids
    /\ docker' # docker
    /\ ret' = DrvEnv
    /\ kcalls' = <<>>
    /\ UNCHANGED <<nbd, tables, procs, toolVars, clock, locks, drv, restVars>>

\* The lock list when the driver starts: empty, or one entry left by another
\* host or by an earlier run of this one.
InitLocks ==
    {{}} \cup {{Lid(h, 1)} : h \in Hosts}

InitDriver ==
    /\ nbd = {}
    /\ tables = [ns \in AllNs |->
                    IF ns = PrivateNs THEN <<RootLine(0, 0)>> ELSE <<RootLine(1, 0)>>]
    /\ procs = [pid \in Pids |-> [ns |-> PidNs(pid), nsOk |-> TRUE, tabOk |-> TRUE]]
    /\ ret = DrvRet("init", "", Nil, "")
    /\ kcalls = <<>>
    /\ ToolIdle
    /\ RestIdle
    /\ locks \in InitLocks
    /\ drv = NoDrv
    /\ docker = {}

\* The driver with two mount ids, while the clock stands still and the refresh
\* loop's commands succeed.
NextDriver ==
    \/ \E id \in MountIds, fail \in MountFails : DriverMount(id, fail)
    \/ \E id \in MountIds, fail \in UnmountFails : DriverUnmount(id, fail)
    \/ \E fail \in {"none", "docker"} : RefreshFirst(fail)
    \/ \E fail \in {"none", "docker"} : RefreshTick(fail)
    \/ LoopExit
    \/ \E ids \in SUBSET MountIds : DockerSet(ids)

SpecDriver == InitDriver /\ [][NextDriver]_vars

\* The lock of a volume with one mount id, as time passes and the refresh
\* loop's commands fail.
LockId == "c1"

NextLock ==
    \/ \E fail \in {"none", "locklist", "map"} : DriverMount(LockId, fail)
    \/ \E fail \in {"none", "docker", "unmap"} : DriverUnmount(LockId, fail)
    \/ \E fail \in RefreshFails : RefreshFirst(fail)
    \/ \E fail \in RefreshFails : RefreshTick(fail)
    \/ LoopExit
    \/ Tick
    \/ \E ids \in SUBSET {LockId} : DockerSet(ids)

SpecLock == InitDriver /\ [][NextLock]_vars

OwnLocks(ls) == {k \in ls : LockHost(k) = Hostname}
DrvMounted == IsMounted(Cur, "none").b
DrvMapped == IsMapped(Cur, "none").b

\* C5: a refresh cycle of a held lock that renews the lock and returns no error
\* leaves exactly one entry of the local host in the lock list, and that entry
\* is unexpired (so no expired local entry remains).
C5_RefreshLeavesOneLock ==
    [][(ret'.op = "refreshLock" /\ ret'.out = "refresh" /\ ret'.err = Nil
            /\ drv.active /\ drv.open)
       => /\ Cardinality(OwnLocks(locks')) = 1
          /\ \A k \in OwnLocks(locks') : clock' < LockExp(k)]_vars

\* C8: a driver Mount of a volume that is mounted for another id issues no map
\* and no kernel mount, leaves the mapping and the mount as they are, and when
\* it succeeds returns the mountpoint of the first Mount.
C8_SecondMountNoRemap ==
    [][(ret'.op = "Mount" /\ drv.loaded /\ DrvMounted /\ drv.users # {}
            /\ ret'.id \notin drv.users)
       => /\ kcalls' = <<>>
          /\ nbd' = nbd /\ tables' = tables
          /\ ret'.err = Nil => ret'.out = VolumeMp]_vars

C8_Witness ==
    /\ ret.op = "Mount" /\ ret.err = Nil /\ ret.out = VolumeMp
    /\ drv.users = MountIds /\ kcalls = <<>> /\ DrvMounted

\* C9: with two mount ids registered on a mounted volume, the Unmount of one id
\* leaves the device mounted and mapped; and an Unmount issues the kernel
\* unmount or the unmap only when no mount id remains registered after it.
C9_RefCountedUnmount ==
    [][(ret'.op = "Unmount" /\ drv.loaded)
       => /\ (drv.users = MountIds /\ DrvMounted) =>
                 (nbd' = nbd /\ tables' = tables /\ kcalls' = <<>>)
          /\ kcalls' # <<>> => drv'.users = {}]_vars

\* C11: a Mount that has to acquire the lock (the volume is not mounted) while
\* the lock list holds an unexpired entry of any host, the local host included,
\* fails, adds no lock entry and starts no refresh loop.
C11_AcquireLockContention ==
    [][(ret'.op = "Mount" /\ ~DrvMounted /\ \E k \in locks : clock < LockExp(k))
       => /\ ret'.err # Nil
          /\ locks' = locks
          /\ drv'.loop = drv.loop]_vars

(***************************************************************************)
(* RbdLock.release, statement by statement: the driver's handler (under    *)
(* rd.mutex) and the refresh loop's idle release call it on the same lock  *)
(* from two goroutines.                                                    *)
(***************************************************************************)
NumCallers == 2
Callers == 1..NumCallers

\* select { case <-rl.open: default: close(rl.open) }: the select finds the
\* channel closed, or takes the default branch
ReleaseSelect(c) ==
    /\ ~rel.panic
    /\ rel.pc[c] = "idle"
    /\ rel' = [rel EXCEPT !.pc[c] = IF drv.open THEN "close" ELSE "list"]
    /\ ret' = DrvEnv
    /\ kcalls' = <<>>
    /\ UNCHANGED <<nbd, tables, procs, toolVars, clock, drvVars, cluster, mux, sd, acq>>

\* close(rl.open); closing a closed channel panics.
ReleaseClose(c) ==
    /\ ~rel.panic
    /\ rel.pc[c] = "close"
    /\ rel' = [rel EXCEPT !.pc[c] = IF drv.open THEN "list" ELSE "panic",
                          !.closes = @ + 1,
                          !.panic = ~drv.open]
    /\ drv' = [drv EXCEPT !.open = FALSE]
    /\ ret' = DrvRet("close", ToString(c), IF drv.open THEN Nil ELSE ErrPanic, "")
    /\ kcalls' = <<>>
    /\ UNCHANGED <<nbd, tables, procs, toolVars, clock, locks, docker, cluster, mux, sd, acq>>

\* rl.img.GetAllLocks(); its error ends the call.
ReleaseList(c, fail) ==
    \E g \in {GetAllLocks(Cur, fail)} :
        /\ ~rel.panic
        /\ rel.pc[c] = "list"
        /\ rel' = [rel EXCEPT !.pc[c] = IF g.err # Nil THEN "idle" ELSE "remove",
                              !.listed[c] = g.locks]
        /\ ret' = IF g.err # Nil THEN DrvRet("release", ToString(c), g.err, "") ELSE DrvEnv
        /\ kcalls' = <<>>
        /\ UNCHANGED <<nbd, tables, procs, toolVars, clock, drvVars, cluster, mux, sd, acq>>

\* the loop over the listed locks: removeLock for each entry of this host, its
\* error logged; then return nil.
ReleaseRemove(c, fail) ==
    /\ ~rel.panic
    /\ rel.pc[c] = "remove"
    /\ locks' = removeLocks(Cur, {k \in rel.listed[c] : LockHost(k) = Hostname}, fail).locks
    /\ rel' = [rel EXCEPT !.pc[c] = "idle"]
    /\ ret' = DrvRet("release", ToString(c), Nil, "")
    /\ kcalls' = <<>>
    /\ UNCHANGED <<nbd, tables, procs, toolVars, clock, drv, docker, cluster, mux, sd, acq>>

\* A held lock: the channel open, the loop ticking, and the lock list with
\* entries of this host and of another.
HeldLocks == SUBSET {Lid(Hostname, 1), Lid(Hostname, 2), Lid("other", 1)}

InitRelease ==
    /\ nbd = {}
    /\ tables = [ns \in AllNs |->
                    IF ns = PrivateNs THEN <<RootLine(0, 0)>> ELSE <<RootLine(1, 0)>>]
    /\ procs = [pid \in Pids |-> [ns |-> PidNs(pid), nsOk |-> TRUE, tabOk |-> TRUE]]
    /\ ret = DrvRet("init", "", Nil, "")
    /\ kcalls = <<>>
    /\ ToolIdle
    /\ locks \in HeldLocks
    /\ drv = [loaded |-> TRUE, users |-> {}, noUsrCnt |-> 0, active |-> TRUE,
              open |-> TRUE, loop |-> "ticking"]
    /\ docker = {}
    /\ rel = [pc |-> [c \in Callers |-> "idle"], listed |-> [c \in Callers |-> {}],
              closes |-> 0, panic |-> FALSE]
    /\ cluster = NoCluster
    /\ mux = NoMux
    /\ sd = NoSd
    /\ acq = NoAcq

NextRelease ==
    \E c \in Callers :
        \/ ReleaseSelect(c)
        \/ ReleaseClose(c)
        \/ \E fail \in {"none", "locklist"} : ReleaseList(c, fail)
        \/ \E fail \in {"none", "lockrm"} : ReleaseRemove(c, fail)

SpecRelease == InitRelease /\ [][NextRelease]_vars

\* C12: over any number of release() calls, one after another or at once, the
\* channel is closed at most once, and a call that returns without error
\* leaves none of the local host's lock entries it listed in the lock list.
C12_ReleaseIdempotent ==
    [][/\ rel'.closes <= 1
       /\ (ret'.op = "release" /\ ret'.err = Nil)
            => \A c \in Callers :
                  (rel.pc[c] = "remove" /\ rel'.pc[c] = "idle")
                  => {k \in rel.listed[c] : LockHost(k) = Hostname} \cap locks' = {}]_vars

\* The calls of an operation that have a given name.
CallsOf(calls, name) == SelectSeq(calls, LAMBDA c : c.call = name)

\* C13: MapAndMount maps at most once and mounts at most once after the map,
\* with no second retry. On an unmapped Dev: an error of the first Mount other
\* than ErrNotMapped is returned with no Map; otherwise Map is called exactly
\* once, first; if Map fails its error is returned and no mount is attempted;
\* if it succeeds the one mount attempt follows it. On a mapped Dev Map is not
\* called.
C13_MapAndMountRetriesOnce ==
    [][(ret'.op = "MapAndMount") =>
          /\ Len(CallsOf(kcalls', "nbd map")) <= 1
          /\ Len(CallsOf(kcalls', "mount")) <= 1
          /\ BlkOf(ret'.dev) # "" => CallsOf(kcalls', "nbd map") = <<>>
          /\ BlkOf(ret'.dev) = "" =>
                \/ kcalls' = <<>> /\ ret'.err \notin {Nil, ErrNotMapped} /\ nbd' = nbd
                \/ /\ kcalls'[1].call = "nbd map"
                   /\ nbd' = nbd => (Len(kcalls') = 1 /\ ret'.err = ErrCmd)
                   /\ nbd' # nbd => \/ Len(kcalls') = 1 /\ ret'.err # Nil
                                    \/ Len(kcalls') = 2 /\ kcalls'[2].call = "mount"]_vars

C13_Witness ==
    /\ ret.op = "MapAndMount"
    /\ Len(kcalls) = 2 /\ kcalls[1].call = "nbd map" /\ kcalls[2].call = "mount"

(***************************************************************************)
(* Image.MapExclusive: "rbd nbd map --exclusive" and the image's features  *)
(***************************************************************************)
ErrExclusiveLockNotEnabled == "exclusive-lock not enabled"
ErrExclusiveLockTaken == "exclusive-lock is held by another client"

\* The feature as the cluster names it (the name passed when an image is
\* created); "rbd feature enable" rejects a name it does not know.
ExclusiveLock == "exclusive-lock"
KnownFeatures == {ExclusiveLock}

\* An outcome that also tells the state of the image on the cluster.
X(err, out, calls, n, cl) ==
    [err |-> err, out |-> out, calls |-> calls, nbd |-> n, cluster |-> cl]

\* cmdOut of "rbd nbd map --exclusive": exit code 22 when the feature is not
\* enabled, 30 when another client holds the exclusive lock.
cmdOutExclusive(d, cl, fail) ==
    LET c == <<Call("nbd map --exclusive", "", "", 0)>>
    IN  IF fail = "map" \/ FreeBlks = {} \/ ~cl.exists THEN X(ErrCmd, "", c, nbd, cl)
        ELSE IF ExclusiveLock \notin cl.features
             THEN X(ErrExclusiveLockNotEnabled, "", c, nbd, cl)
        ELSE IF cl.holder = "other" THEN X(ErrExclusiveLockTaken, "", c, nbd, cl)
        ELSE X(Nil, FirstFree \o "\n", c, nbd \cup {Row(d, FirstFree, FALSE)},
               [cl EXCEPT !.holder = "me"])

\* devMap with the arguments of MapExclusive
devMapExclusive(d, cl, fail) ==
    LET from(dv) ==
            IF dv.err # Nil \/ dv.blk # "" THEN X(dv.err, dv.blk, <<>>, nbd, cl)
            ELSE cmdOutExclusive(d, cl, fail)
    IN  from(device(d, fail))

\* Image.EnableFeatures: "rbd feature enable"
EnableFeatures(d, cl, feature, fail) ==
    LET c == <<ClusterCall("feature enable", d.image, feature)>>
    IN  IF fail = "enable" \/ feature \notin KnownFeatures \/ feature \in cl.features
        THEN X(ErrCmd, "", c, nbd, cl)
        ELSE X(Nil, "", c, nbd, [cl EXCEPT !.features = @ \cup {feature}])

\* Image.MapExclusive; first is the error of the first map request.
ImageMapExclusive(d, fail) ==
    LET again(first, en, second) ==
            [first |-> first.err,
             r |-> IF en.err # Nil THEN X(en.err, "", first.calls \o en.calls, nbd, cluster)
                   ELSE X(second.err, second.out, first.calls \o en.calls \o second.calls,
                          second.nbd, second.cluster)]
        enabled(first, en) == again(first, en, devMapExclusive(d, en.cluster, fail))
        from(first) ==
            IF first.err = ErrExclusiveLockNotEnabled
            THEN enabled(first, EnableFeatures(d, cluster, "exclusive-locks", fail))
            ELSE [first |-> first.err, r |-> first]
    IN  from(devMapExclusive(d, cluster, fail))

MapExclusive(d) ==
    \E fail \in {"none", "list", "map", "enable"} :
        \E x \in {ImageMapExclusive(d, fail)} :
            /\ nbd' = x.r.nbd
            /\ cluster' = x.r.cluster
            /\ ret' = [op |-> "MapExclusive", dev |-> d, mp |-> "", err |-> x.r.err,
                       out |-> x.r.out, first |-> x.first, clean |-> fail = "none"]
            /\ kcalls' = x.r.calls
            /\ UNCHANGED <<tables, procs, toolVars, clock, drvVars, rel, mux, sd, acq>>

\* Image.Unmap of an image mapped with --exclusive: the unmap gives the
\* exclusive lock up.
UnmapExclusive(d) ==
    \E fail \in {"none", "unmap"} :
        \E r \in {devUnmap(d, fail)} :
            /\ nbd' = r.nbd
            /\ cluster' = IF r.nbd # nbd /\ cluster.holder = "me"
                          THEN [cluster EXCEPT !.holder = "none"] ELSE cluster
            /\ ret' = Ret("Unmap", d, "", r)
            /\ kcalls' = r.calls
            /\ UNCHANGED <<tables, procs, toolVars, clock, drvVars, rel, mux, sd, acq>>

\* The rest of the cluster: an administrator enables or disables the feature
\* (Image.DisableFeatures), another client takes or gives up the exclusive lock.
ClusterFeature(on) ==
    /\ cluster.holder = "none"
    /\ cluster' = [cluster EXCEPT !.features = IF on THEN {ExclusiveLock} ELSE {}]
    /\ cluster' # cluster
    /\ ret' = EnvRet
    /\ kcalls' = <<>>
    /\ UNCHANGED <<nbd, tables, procs, toolVars, clock, drvVars, rel, mux, sd, acq>>

OtherClient(holds) ==
    /\ cluster.holder # "me"
    /\ ExclusiveLock \in cluster.features
    /\ cluster' = [cluster EXCEPT !.holder = IF holds THEN "other" ELSE "none"]
    /\ cluster' # cluster
    /\ ret' = EnvRet
    /\ kcalls' = <<>>
    /\ UNCHANGED <<nbd, tables, procs, toolVars, clock, drvVars, rel, mux, sd, acq>>

InitExcl ==
    /\ nbd = {}
    /\ tables = [ns \in AllNs |->
                    IF ns = PrivateNs THEN <<RootLine(0, 0)>> ELSE <<RootLine(1, 0)>>]
    /\ procs = [pid \in Pids |-> [ns |-> PidNs(pid), nsOk |-> TRUE, tabOk |-> TRUE]]
    /\ ret = EnvRet
    /\ kcalls = <<>>
    /\ ToolIdle
    /\ DriverIdle
    /\ rel = NoRel
    /\ cluster \in {[NoCluster EXCEPT !.features = f] : f \in SUBSET KnownFeatures}
    /\ mux = NoMux
    /\ sd = NoSd
    /\ acq = NoAcq

NextExcl ==
    \/ MapExclusive(Img)
    \/ UnmapExclusive(Img)
    \/ Map(Snap)
    \/ Unmap(Snap)
    \/ \E on \in BOOLEAN : ClusterFeature(on)
    \/ \E holds \in BOOLEAN : OtherClient(holds)

SpecExcl == InitExcl /\ [][NextExcl]_vars

\* C14: when the first map request of MapExclusive fails with
\* ErrExclusiveLockNotEnabled (and no command is made to fail), the feature is
\* enabled on the image and the map is requested exactly once more; when it
\* fails with ErrExclusiveLockTaken that error is returned with no feature
\* change and no second request. There are never more than two requests.
C14_ExclusiveMap ==
    [][(ret'.op = "MapExclusive" /\ ret'.clean) =>
          /\ Len(CallsOf(kcalls', "nbd map --exclusive")) <= 2
          /\ ret'.first = ErrExclusiveLockNotEnabled =>
                /\ ExclusiveLock \in cluster'.features
                /\ Len(CallsOf(kcalls', "nbd map --exclusive")) = 2
          /\ ret'.first = ErrExclusiveLockTaken =>
                /\ ret'.err = ErrExclusiveLockTaken
                /\ cluster' = cluster
                /\ Len(kcalls') = 1]_vars

(***************************************************************************)
(* package main: RbdDriver, the volume plugin over package rbd             *)
(* Every handler holds the mutex of its image from imgReqInit to its       *)
(* return, so a handler is one step here; the mutex itself is modelled     *)
(* further down.                                                           *)
(***************************************************************************)
ErrDoesNotExist == "does not exist"

\* An outcome with the mapping list, the mount tables and the cluster's image.
V(err, out, calls, n, t, cl) ==
    [err |-> err, out |-> out, calls |-> calls, nbd |-> n, tables |-> t, cluster |-> cl]

\* Pool.GetImage: "rbd info" of the image
GetImage(fail) ==
    [err |-> IF fail = "info" THEN ErrCmd
             ELSE IF ~cluster.exists THEN ErrDoesNotExist ELSE Nil,
     calls |-> <<ClusterCall("info", Img.image, "")>>]

\* Pool.CreateImage with the arguments of RbdDriver.Create
CreateImage(fail) ==
    LET c == <<ClusterCall("create", Img.image, ExclusiveLock)>>
    IN  IF fail = "create" THEN X(ErrCmd, "", c, nbd, cluster)
        ELSE IF cluster.exists THEN X(ErrAlreadyExists, "", c, nbd, cluster)
        ELSE X(Nil, "", c, nbd,
               [features |-> {ExclusiveLock}, holder |-> "none", exists |-> TRUE])

\* mkfs.<fs> of the device: it fails when there is no such device.
mkfs(n, blk, fail) ==
    [err |-> IF fail = "mkfs" \/ ~IsDevice(n, blk) THEN ErrCmd ELSE Nil,
     calls |-> <<Call("mkfs", blk, "", 0)>>]

\* Image.Unmap on the mapping list n
UnmapIn(n, fail) ==
    IF fail = "list" THEN R(ErrCmd, "", <<>>, n, tables)
    ELSE IF \A m \in n : ~IsDev(m, Img) THEN R(Nil, "", <<>>, n, tables)
    ELSE unmap(n, tables, (CHOOSE m \in n : IsDev(m, Img)).Device, fail)

CreateImageWithFileSystem(fail) ==
    LET unmapped(cr, m, mk, un) ==
            V(un.err, "", cr.calls \o m.calls \o mk.calls \o un.calls,
              un.nbd, tables, cr.cluster)
        made(cr, m, mk) ==
            IF mk.err # Nil
            THEN V(mk.err, "", cr.calls \o m.calls \o mk.calls, m.nbd, tables, cr.cluster)
            ELSE unmapped(cr, m, mk, UnmapIn(m.nbd, fail))
        mapped(cr, m) ==
            IF m.err # Nil THEN V(m.err, "", cr.calls \o m.calls, m.nbd, tables, cr.cluster)
            ELSE made(cr, m, mkfs(m.nbd, m.out, fail))
        from(cr) ==
            IF cr.err # Nil THEN V(cr.err, "", cr.calls, nbd, tables, cr.cluster)
            ELSE mapped(cr, DevMap(Img, fail))
    IN  from(CreateImage(fail))

\* Image.Remove: the command is issued whatever the state of the image; the
\* cluster refuses to remove an image that this or another client has mapped.
ImageRemove(fail) ==
    LET c == <<ClusterCall("remove", Img.image, "")>>
    IN  IF fail = "remove" \/ ~cluster.exists \/ BlkOf(Img) # "" \/ cluster.holder = "other"
        THEN V(ErrCmd, "", c, nbd, tables, cluster)
        ELSE V(Nil, "", c, nbd, tables,
               [features |-> {}, holder |-> "none", exists |-> FALSE])

\* Image.MapAndMountExclusive: devMapAndMount that maps with MapExclusive
MapAndMountExclusive(mountPoint, flags, fail) ==
    LET mounted(m, mt) == V(mt.err, "", m.calls \o mt.calls, mt.nbd, mt.tables, m.cluster)
        mapped(m) ==
            IF m.err # Nil THEN V(m.err, "", m.calls, m.nbd, tables, m.cluster)
            ELSE mounted(m, mount(m.nbd, m.out, mountPoint, "", flags, fail))
        from(r) ==
            IF r.err # ErrNotMapped
            THEN V(r.err, "", r.calls, r.nbd, r.tables, cluster)
            ELSE mapped(ImageMapExclusive(Img, fail).r)
    IN  from(devMount(Img, mountPoint, "", flags, fail))

\* Image.UnmountAndUnmap; the unmap gives the exclusive lock up.
ImageUnmountAndUnmap(mountPoint, fail) ==
    LET from(r) ==
            V(r.err, "", r.calls, r.nbd, r.tables,
              IF r.nbd # nbd /\ cluster.holder = "me"
              THEN [cluster EXCEPT !.holder = "none"] ELSE cluster)
    IN  from(devUnmountAndUnmap(Img, mountPoint, fail))

\* RbdDriver.isMounted
isMounted(fail) ==
    LET from(dv) ==
            IF dv.err # Nil \/ dv.blk = "" THEN [err |-> dv.err, mp |-> ""]
            ELSE LET ma == isMountedAt(dv.blk, MpTarget)
                 IN  [err |-> ma.err, mp |-> IF ma.mounted THEN MpTarget ELSE ""]
    IN  from(device(Img, fail))

\* What a handler answers: err is what the caller gets, inner the error of
\* the operation of package rbd the handler ran.
Answer(op, err, out, inner) ==
    [op |-> op, dev |-> Img, mp |-> MpTarget, err |-> err, out |-> out, inner |-> inner]

Handled(op, v, err, out, calls) ==
    /\ nbd' = v.nbd
    /\ tables' = v.tables
    /\ cluster' = v.cluster
    /\ ret' = Answer(op, err, out, v.err)
    /\ kcalls' = calls
    /\ UNCHANGED <<procs, toolVars, clock, drvVars, rel, mux, sd, acq>>

Same(err) == V(err, "", <<>>, nbd, tables, cluster)

PluginCreate ==
    \E fail \in {"none", "create", "list", "map", "mkfs", "unmap"} :
        \E v \in {CreateImageWithFileSystem(fail)} :
            Handled("Plugin.Create", v, v.err, "", v.calls)

PluginGet ==
    \E fail \in {"none", "info", "list"} :
        \E g \in {GetImage(fail)} :
            \E m \in {IF g.err # Nil THEN [err |-> g.err, mp |-> ""] ELSE isMounted(fail)} :
                Handled("Plugin.Get", Same(m.err), g.err, m.mp, g.calls)

PluginPath ==
    \E fail \in {"none", "info", "list"} :
        \E g \in {GetImage(fail)} :
            \E m \in {IF g.err # Nil THEN [err |-> g.err, mp |-> ""] ELSE isMounted(fail)} :
                Handled("Plugin.Path", Same(m.err), m.err, m.mp, g.calls)

PluginRemove ==
    \E fail \in {"none", "info", "remove"} :
        \E g \in {GetImage(fail)} :
            \E v \in {IF g.err # Nil THEN Same(g.err) ELSE ImageRemove(fail)} :
                Handled("Plugin.Remove", v, v.err, "", g.calls \o v.calls)

PluginMount ==
    \E fail \in {"none", "info", "list", "map", "enable", "mount"} :
        \E g \in {GetImage(fail)} :
            \E v \in {IF g.err # Nil THEN Same(g.err)
                      ELSE MapAndMountExclusive(MpTarget, MS_NOATIME, fail)} :
                Handled("Plugin.Mount", v, v.err,
                        IF v.err = Nil THEN MpTarget ELSE "", g.calls \o v.calls)

\* An ErrMountedElsewhere of UnmountAndUnmap is logged and nil is returned.
PluginUnmount ==
    \E fail \in {"none", "info", "list", "umount", "unmap"} :
        \E g \in {GetImage(fail)} :
            \E v \in {IF g.err # Nil THEN Same(g.err)
                      ELSE ImageUnmountAndUnmap(MpTarget, fail)} :
                Handled("Plugin.Unmount", v,
                        IF v.err = ErrMountedElsewhere THEN Nil ELSE v.err,
                        "", g.calls \o v.calls)

InitPlugin ==
    /\ nbd = {}
    /\ tables = [ns \in AllNs |->
                    IF ns = PrivateNs THEN <<RootLine(0, 0)>> ELSE <<RootLine(1, 0)>>]
    /\ procs = [pid \in Pids |-> [ns |-> PidNs(pid), nsOk |-> TRUE, tabOk |-> TRUE]]
    /\ ret = EnvRet
    /\ kcalls = <<>>
    /\ ToolIdle
    /\ DriverIdle
    /\ rel = NoRel
    /\ cluster \in {[features |-> {}, holder |-> "none", exists |-> FALSE],
                    [features |-> {ExclusiveLock}, holder |-> "none", exists |-> TRUE]}
    /\ mux = NoMux
    /\ sd = NoSd
    /\ acq = NoAcq

NextPlugin ==
    \/ PluginCreate
    \/ PluginGet
    \/ PluginPath
    \/ PluginRemove
    \/ PluginMount
    \/ PluginUnmount
    \/ \E blk \in Blks : ForeignMount(PrivateNs, blk)
    \/ \E blk \in Blks : ForeignUnmount(PrivateNs, blk)
    \/ \E holds \in BOOLEAN : OtherClient(holds)

SpecPlugin == InitPlugin /\ [][NextPlugin]_vars

Mapped(n) == \E m \in n : IsDev(m, Img)

\* C15: Remove() of a volume that has a mapping on this host fails and does
\* not issue the cluster's remove command; the command is issued only for an
\* unmapped volume.
C15_RemoveRequiresUnmapped ==
    [][(ret'.op = "Plugin.Remove" /\ Mapped(nbd))
          => /\ ret'.err # Nil
             /\ CallsOf(kcalls', "remove") = <<>>]_vars

\* C19: when the UnmountAndUnmap of a driver Unmount aborts with
\* ErrMountedElsewhere, or the map of a driver Mount with
\* ErrExclusiveLockTaken, the handler returns that error to its caller.
C19_SafetyErrorsSurfaced ==
    [][(/\ ret'.op \in {"Plugin.Mount", "Plugin.Unmount"}
        /\ ret'.inner \in {ErrMountedElsewhere, ErrExclusiveLockTaken})
          => ret'.err = ret'.inner]_vars

\* C20: after Create returns, on its success path and on every failure path
\* after the temporary mapping was made (a failed unmap apart), the volume it
\* found unmapped has no mapping on this host.
C20_CreateLeavesUnmapped ==
    [][(/\ ret'.op = "Plugin.Create"
        /\ ~Mapped(nbd)
        /\ CallsOf(kcalls', "nbd unmap") = <<>>)
          => ~Mapped(nbd')]_vars

(***************************************************************************)
(* rbd-snap, the older snap: snapRbd over RBD                              *)
(***************************************************************************)
\* RBD.Snapshot: "rbd snap create"
Snapshot(img, name, fail) ==
    LET c == <<ClusterCall("snap create", img.image, name)>>
    IN  IF fail = "create" \/ \E sn \in snaps : sn.image = img.image /\ sn.name = name
        THEN T(ErrCmd, c, nbd, tables, snaps)
        ELSE T(Nil, c, nbd, tables,
               snaps \cup {[image |-> img.image, name |-> name, created |-> clock]})

\* The loop of snapRbd over the mounts: the first mountpoint whose freeze
\* succeeds, and the freezes tried.
FreezeFirst(blk, mounts, fail) ==
    IF Len(mounts) = 0 THEN [frozen |-> "", calls |-> <<>>]
    ELSE IF fail = "freeze"
         THEN [frozen |-> "",
               calls |-> [i \in 1..Len(mounts) |->
                             Call("fsfreeze --freeze", blk, mounts[i].m.MountPoint, 0)]]
    ELSE [frozen |-> mounts[1].m.MountPoint,
          calls |-> <<Call("fsfreeze --freeze", blk, mounts[1].m.MountPoint, 0)>>]

\* snapRbd, for an image that matches the pattern. The snapshot's error is
\* returned before FSUnfreeze is reached.
snapRbd(img, snapName, fail) ==
    LET unfreeze(blk, fr) == <<Call("fsfreeze --unfreeze", blk, fr.frozen, 0)>>
        taken(blk, fr, sn) ==
            IF sn.err # Nil THEN T(sn.err, fr.calls \o sn.calls, nbd, tables, snaps)
            ELSE T(IF fr.frozen = "" THEN ErrCmd ELSE Nil,
                   fr.calls \o sn.calls \o unfreeze(blk, fr), nbd, tables, sn.snaps)
        tried(blk, gm, fr) ==
            IF fr.frozen = "" /\ Len(gm.mounts) > 0 THEN T(ErrCmd, fr.calls, nbd, tables, snaps)
            ELSE IF fr.frozen = "" /\ isMountedElsewhere(blk, "") # Nil
                 THEN T(isMountedElsewhere(blk, ""), fr.calls, nbd, tables, snaps)
            ELSE taken(blk, fr, Snapshot(img, snapName, fail))
        mounts(blk, gm) ==
            IF gm.err # Nil THEN T(gm.err, <<>>, nbd, tables, snaps)
            ELSE tried(blk, gm, FreezeFirst(blk, gm.mounts, fail))
        from(dv) ==
            IF dv.err # Nil \/ dv.blk = "" THEN T(dv.err, <<>>, nbd, tables, snaps)
            ELSE mounts(dv.blk, getMounts(dv.blk))
    IN  from(device(img, fail))

\* snap of the older tool, up to the calls of snapRbd
SnapRbdStart(includeTS, patterns) ==
    \E fail \in {"none", "images"} :
        LET plan == loopImgs(patterns, fail)
        IN  /\ batch.tool = "idle"
            /\ batch' = [tool |-> "snap", patterns |-> patterns, before |-> 0,
                         name |-> IF includeTS THEN StampedName(clock) ELSE Prefix,
                         onlyMapped |-> TRUE,
                         todo |-> plan.work, errs |-> plan.errs,
                         start |-> snaps, clean |-> fail = "none", joined |-> <<>>,
                         frozen |-> {}]
            /\ ret' = ToolRet("running", Nil)
            /\ kcalls' = <<>>
            /\ UNCHANGED <<nbd, tables, procs, snaps, clock, drvVars, restVars>>

SnapRbd(item) ==
    \E fail \in {"none", "list", "freeze", "create"} :
        \E r \in {snapRbd(item[2], batch.name, fail)} :
            /\ batch.tool = "snap"
            /\ item \in batch.todo
            /\ Step(r)
            /\ batch' = [batch EXCEPT !.todo = @ \ {item},
                            !.errs = IF r.err = Nil THEN @ ELSE Append(@, r.err),
                            !.clean = @ /\ fail = "none",
                            !.frozen = @ \cup Frozen(r.calls, fail)]
            /\ ret' = ret

NextSnapRbd ==
    \/ \E includeTS \in BOOLEAN, patterns \in PatternSets : SnapRbdStart(includeTS, patterns)
    \/ \E item \in batch.todo : SnapRbd(item)
    \/ ToolEnd

SpecSnapRbd == InitSnap /\ [][NextSnapRbd]_vars

\* C17: a consistent snapshot of a locally mounted volume unfreezes every
\* mountpoint it froze, on every path, the one where the snapshot's creation
\* fails included: when the snapshot of a volume returns, no filesystem that it
\* froze is still frozen.
C17_UnfreezeAlways ==
    [][(batch.tool = "snap" /\ batch'.todo # batch.todo) => batch'.frozen = {}]_vars

\* C18: in a batch a failure on one pattern or one volume never keeps the
\* others from being processed: the run goes on until nothing is left to do,
\* every failure stays collected, and the run returns success exactly when no
\* item failed, otherwise one error that holds the message of every failure.
C18_BatchAggregates ==
    [][batch.tool \in {"prune", "snap"} =>
          /\ batch'.tool \in {batch.tool, "done"}
          /\ Len(batch'.errs) >= Len(batch.errs)
          /\ SubSeq(batch'.errs, 1, Len(batch.errs)) = batch.errs
          /\ batch'.tool = "done" =>
                /\ batch.todo = {}
                /\ ret'.err = Nil <=> batch.errs = <<>>
                /\ \A i \in 1..Len(batch.errs) :
                      \E j \in 1..Len(batch'.joined) : batch'.joined[j] = batch.errs[i]]_vars

(***************************************************************************)
(* package main: the mutex of an image (getMutex, lock, unlock) and the    *)
(* requests that take it in imgReqInit                                     *)
(***************************************************************************)
NumReqs == 2
Reqs == 1..NumReqs
ImgNames == {"docker/data1", "docker/data2"}
\* The sync.Mutex values that can be made: one a request and name at most.
NumMutexes == 4
Mutexes == 1..NumMutexes

\* mutexMap[name] as getMutex reads it under the write lock, with the mutex
\* to make when there is none.
Recreated(found, fresh) == fresh
Rechecked(found, fresh) == IF found = 0 THEN fresh ELSE found

muxRest == <<devVars, toolVars, clock, drvVars, rel, cluster, sd, acq>>

At(r, pc) == mux.req[r].pc = pc

Goto(r, pc) == [mux.req EXCEPT ![r].pc = pc]

\* A handler starts: imgReqInit calls lock(imgName).
Request(r, name) ==
    /\ At(r, "idle")
    /\ mux' = [mux EXCEPT !.req[r] = [pc |-> "RLock", name |-> name, mutex |-> 0,
                                      unlocking |-> FALSE, seen |-> 0]]
    /\ UNCHANGED muxRest

\* getMutex: mutexMapMutex.RLock()
RLock(r) ==
    /\ At(r, "RLock")
    /\ mux.writer = 0
    /\ mux' = [mux EXCEPT !.readers = @ \cup {r}, !.req = Goto(r, "load")]
    /\ UNCHANGED muxRest

\* getMutex: mutex := mutexMap[name]
Load(r) ==
    /\ At(r, "load")
    /\ mux' = [mux EXCEPT !.req[r].mutex = mux.map[mux.req[r].name],
                          !.req[r].pc = "RUnlock"]
    /\ UNCHANGED muxRest

\* getMutex: mutexMapMutex.RUnlock(), in either branch
RUnlock(r) ==
    /\ At(r, "RUnlock")
    /\ mux' = [mux EXCEPT !.readers = @ \ {r},
                          !.req = Goto(r, IF mux.req[r].mutex = 0 THEN "Lock" ELSE "got")]
    /\ UNCHANGED muxRest

\* getMutex: mutexMapMutex.Lock()
WLock(r) ==
    /\ At(r, "Lock")
    /\ mux.writer = 0 /\ mux.readers = {}
    /\ mux' = [mux EXCEPT !.writer = r, !.req = Goto(r, "store")]
    /\ UNCHANGED muxRest

\* getMutex: the second look at mutexMap[name], and the new mutex if there is
\* still none
Store(r) ==
    /\ At(r, "store")
    /\ mux.made < NumMutexes
    /\ \E m \in {Rechecked(mux.map[mux.req[r].name], mux.made + 1)} :
          mux' = [mux EXCEPT !.map[mux.req[r].name] = m,
                             !.made = IF m = mux.made + 1 THEN m ELSE @,
                             !.req[r].mutex = m,
                             !.req[r].pc = "Unlock"]
    /\ UNCHANGED muxRest

\* getMutex: mutexMapMutex.Unlock()
WUnlock(r) ==
    /\ At(r, "Unlock")
    /\ mux' = [mux EXCEPT !.writer = 0, !.req = Goto(r, "got")]
    /\ UNCHANGED muxRest

\* lock: getMutex(s).Lock()
MutexLock(r) ==
    /\ At(r, "got") /\ ~mux.req[r].unlocking
    /\ mux.held[mux.req[r].mutex] = 0
    /\ mux' = [mux EXCEPT !.held[mux.req[r].mutex] = r, !.req = Goto(r, "observe")]
    /\ UNCHANGED muxRest

\* The handler looks at its volume,
Observe(r) ==
    /\ At(r, "observe")
    /\ mux' = [mux EXCEPT !.req[r].seen = mux.vol[mux.req[r].name],
                          !.req[r].pc = "act"]
    /\ UNCHANGED muxRest

\* acts on what it saw, and returns: the deferred unlock(imgName) starts.
Act(r) ==
    /\ At(r, "act")
    /\ mux' = [mux EXCEPT !.vol[mux.req[r].name] = 1 - mux.req[r].seen,
                          !.req[r].unlocking = TRUE,
                          !.req[r].pc = "RLock"]
    /\ UNCHANGED muxRest

\* unlock: getMutex(s).Unlock()
MutexUnlock(r) ==
    /\ At(r, "got") /\ mux.req[r].unlocking
    /\ mux' = [mux EXCEPT !.held[mux.req[r].mutex] = 0, !.req = Goto(r, "idle")]
    /\ UNCHANGED muxRest

InitMutex ==
    /\ nbd = {}
    /\ tables = [ns \in AllNs |->
                    IF ns = PrivateNs THEN <<RootLine(0, 0)>> ELSE <<RootLine(1, 0)>>]
    /\ procs = [pid \in Pids |-> [ns |-> PidNs(pid), nsOk |-> TRUE, tabOk |-> TRUE]]
    /\ ret = EnvRet
    /\ kcalls = <<>>
    /\ ToolIdle
    /\ DriverIdle
    /\ rel = NoRel
    /\ cluster = NoCluster
    /\ mux = [map |-> [n \in ImgNames |-> 0], made |-> 0, readers |-> {}, writer |-> 0,
              held |-> [m \in Mutexes |-> 0],
              vol |-> [n \in ImgNames |-> 0],
              req |-> [r \in Reqs |-> [pc |-> "idle", name |-> "", mutex |-> 0,
                                       unlocking |-> FALSE, seen |-> 0]]]
    /\ sd = NoSd
    /\ acq = NoAcq

NextMutex ==
    \E r \in Reqs :
        \/ \E name \in ImgNames : Request(r, name)
        \/ RLock(r)
        \/ Load(r)
        \/ RUnlock(r)
        \/ WLock(r)
        \/ Store(r)
        \/ WUnlock(r)
        \/ MutexLock(r)
        \/ Observe(r)
        \/ Act(r)
        \/ MutexUnlock(r)

SpecMutex == InitMutex /\ [][NextMutex]_vars

\* A request is between the Lock and the Unlock of its image's mutex.
Holding(r) ==
    \/ mux.req[r].pc \in {"observe", "act"}
    \/ mux.req[r].pc # "idle" /\ mux.req[r].unlocking

\* A request waits for the mutex of its image.
Waiting(r) == At(r, "got") /\ ~mux.req[r].unlocking /\ ~ENABLED MutexLock(r)

\* C16: for every image name at most one request is between acquiring and
\* releasing the image's mutex, so what a handler observed is still so when
\* it acts; and a request waits for the mutex only while a request on the
\* same image holds it.
C16_PerVolumeSerialized ==
    /\ \A r1, r2 \in Reqs :
          (r1 # r2 /\ Holding(r1) /\ Holding(r2)) => mux.req[r1].name # mux.req[r2].name
    /\ \A r \in Reqs : At(r, "act") => mux.req[r].seen = mux.vol[mux.req[r].name]
    /\ \A r \in Reqs :
          Waiting(r) => \E o \in Reqs \ {r} :
                            Holding(o) /\ mux.req[o].name = mux.req[r].name

\* One request acts on an image while another waits for the mutex of the same
\* image, both having found the one mutex that getMutex made for it.
C16_Witness ==
    \E r1, r2 \in Reqs :
        /\ At(r1, "act") /\ Waiting(r2)
        /\ mux.req[r1].name = mux.req[r2].name
        /\ mux.req[r1].mutex = mux.req[r2].mutex

(***************************************************************************)
(* rbddriver: the handlers under rd.mutex, unmountWg, and the goroutine of *)
(* Run that waits for it after a signal, statement by statement            *)
(***************************************************************************)
NumHandlers == 2
Handlers == 1..NumHandlers

sdRest == <<devVars, toolVars, clock, drvVars, rel, cluster, mux, acq>>

Running == sd.sig # "exited"

In(h, kind, pc) == sd.req[h].kind = kind /\ sd.req[h].pc = pc

To(h, pc) == [sd.req EXCEPT ![h].pc = pc]

\* docker asks for a Mount or an Unmount: the handler starts.
Handle(h, kind) ==
    /\ Running
    /\ sd.req[h].pc = "idle"
    /\ sd' = [sd EXCEPT !.req[h] = [kind |-> kind, pc |-> "Lock"]]
    /\ UNCHANGED sdRest

\* rd.mutex.Lock()
MutexTaken(h) ==
    /\ Running
    /\ sd.req[h].pc = "Lock"
    /\ sd.mutex = 0
    /\ sd' = [sd EXCEPT !.mutex = h, !.req = To(h, "locked")]
    /\ UNCHANGED sdRest

\* Mount: img.Mount and, when it succeeds, rd.mounts[image] = img
MountImg(h, ok) ==
    /\ Running
    /\ In(h, "Mount", "locked")
    /\ sd' = [sd EXCEPT !.mounts = @ \/ ok, !.req = To(h, "Unlock")]
    /\ UNCHANGED sdRest

\* Unmount: the image is looked up in rd.mounts; when it is there,
\* rd.unmountWg.Add(1)
UnmountAdd(h) ==
    /\ Running
    /\ In(h, "Unmount", "locked")
    /\ sd' = IF sd.mounts
             THEN [sd EXCEPT !.wg = @ + 1, !.req = To(h, "Unmount")]
             ELSE [sd EXCEPT !.req = To(h, "Unlock")]
    /\ UNCHANGED sdRest

\* Unmount: img.Unmount(req.ID), the unmount and unmap sequence
UnmountImg(h) ==
    /\ Running
    /\ In(h, "Unmount", "Unmount")
    /\ sd' = [sd EXCEPT !.req = To(h, "Done")]
    /\ UNCHANGED sdRest

\* Unmount: the deferred rd.unmountWg.Done()
UnmountDone(h) ==
    /\ Running
    /\ In(h, "Unmount", "Done")
    /\ sd' = [sd EXCEPT !.wg = @ - 1, !.req = To(h, "Unlock")]
    /\ UNCHANGED sdRest

\* the deferred rd.mutex.Unlock(), and the handler returns
MutexGiven(h) ==
    /\ Running
    /\ sd.req[h].pc = "Unlock"
    /\ sd' = [sd EXCEPT !.mutex = 0, !.req = To(h, "idle")]
    /\ UNCHANGED sdRest

\* Run: the goroutine receives the signal from c,
Signal ==
    /\ sd.sig = "none"
    /\ sd' = [sd EXCEPT !.sig = "received"]
    /\ UNCHANGED sdRest

\* d.UnmountWait() returns when the counter is zero,
UnmountWait ==
    /\ sd.sig = "received"
    /\ sd.wg = 0
    /\ sd' = [sd EXCEPT !.sig = "waited"]
    /\ UNCHANGED sdRest

\* and os.Exit(0) ends the process.
Exit ==
    /\ sd.sig = "waited"
    /\ sd' = [sd EXCEPT !.sig = "exited"]
    /\ UNCHANGED sdRest

InitShutdown ==
    /\ nbd = {}
    /\ tables = [ns \in AllNs |->
                    IF ns = PrivateNs THEN <<RootLine(0, 0)>> ELSE <<RootLine(1, 0)>>]
    /\ procs = [pid \in Pids |-> [ns |-> PidNs(pid), nsOk |-> TRUE, tabOk |-> TRUE]]
    /\ ret = DrvRet("init", "", Nil, "")
    /\ kcalls = <<>>
    /\ ToolIdle
    /\ locks = {} /\ drv = NoDrv /\ docker = {}
    /\ rel = NoRel
    /\ cluster = NoCluster
    /\ mux = NoMux
    /\ sd = [mutex |-> 0, wg |-> 0, sig |-> "none", mounts |-> FALSE,
             req |-> [h \in Handlers |-> [kind |-> "Mount", pc |-> "idle"]]]
    /\ acq = NoAcq

NextShutdown ==
    \/ \E h \in Handlers :
          \/ \E kind \in {"Mount", "Unmount"} : Handle(h, kind)
          \/ MutexTaken(h)
          \/ \E ok \in BOOLEAN : MountImg(h, ok)
          \/ UnmountAdd(h)
          \/ UnmountImg(h)
          \/ UnmountDone(h)
          \/ MutexGiven(h)
    \/ Signal
    \/ UnmountWait
    \/ Exit

SpecShutdown == InitShutdown /\ [][NextShutdown]_vars

\* An Unmount that docker asked for and that has not returned.
Unfinished(h) == sd.req[h].kind = "Unmount" /\ sd.req[h].pc # "idle"

\* C21: after a termination signal the process does not exit while an Unmount
\* has not finished, one that waits to start its unmount and unmap sequence
\* included: at the exit the counter is zero and no Unmount is unfinished.
C21_GracefulShutdown ==
    [][(sd'.sig = "exited" /\ sd.sig # "exited")
          => sd.wg = 0 /\ \A h \in Handlers : ~Unfinished(h)]_vars

(***************************************************************************)
(* rbddriver: NewRbdDriver over the mappings found at startup              *)
(***************************************************************************)
\* GetLockHost: a host that holds a valid lock of the image. When valid locks
\* of several hosts are listed, any of them may be the answer.
GetLockHost(s, fail) ==
    LET g == GetValidLocks(s, fail)
    IN  [err |-> IF g.err # Nil \/ g.locks = {} THEN ErrCmd ELSE g.err,
         hosts |-> {LockHost(k) : k \in g.locks}]

\* "docker kill" and "kill -9 $(lsof -t dev)": the namespaces of gone lose
\* their mounts of the device, as all their processes had files open on it.
\* A namespace with a process that has no file open on the device stays.
Killed(s, dev, gone) ==
    [s EXCEPT !.tables = [ns \in DOMAIN @ |->
        IF ns \in gone THEN SelectSeq(@[ns], LAMBDA l : l.Source # dev) ELSE @[ns]]]

\* RbdImage.EmergencyUnmap. "rbd unmap" runs without the force option and
\* fails while a mount of the device is left in some namespace.
EmergencyUnmap(s, gone, fail) ==
    LET c == Call("rbd unmap", "", "", 0)
        unmapped(u) ==
            IF fail = "unmap" \/ \E m \in u.nbd : m.Name = Img.image /\ m.Device \in Sources(u.tables)
            THEN E(ErrCmd, Issue(u, c))
            ELSE E(Nil, Issue([u EXCEPT !.nbd = {m \in @ : m.Name # Img.image}], c))
        umounted(k, mp) ==
            unmapped(IF mp.mp # ""
                     THEN Issue([k EXCEPT !.tables = kUnmount(@, mp.mp)], Call("umount", "", mp.mp, 0))
                     ELSE k)
        killed(d) == umounted(Killed(s, d.dev, gone), GetMountPoint(Killed(s, d.dev, gone), fail))
        from(d) == IF d.err # Nil THEN E(ErrCmd, s) ELSE killed(d)
    IN  from(GetDevice(s, fail))

\* NewRbdDriver for one mapping of the pool: the body of the loop over the
\* mappings and the unmount of an image no container uses. who is the answer
\* of GetLockHost.
startImage(s, who, gone, fail) ==
    LET unused(s1) == IF docker = {} THEN RbdImageUnmount(s1, "", fail).s ELSE s1
        from(il, gl) ==
            IF il.err # Nil THEN s
            ELSE IF il.b /\ gl.err # Nil THEN s
            ELSE IF il.b /\ who # Hostname THEN EmergencyUnmap(s, gone, fail).s
            ELSE unused([InheritLock(s, fail).s EXCEPT !.active = TRUE])
    IN  from(IsLocked(s, fail), GetLockHost(s, fail))

StartupFails == {"none", "locklist", "unmap"}

NewRbdDriver(who, gone, fail) ==
    /\ ret.op = "init"
    /\ who \in (IF GetLockHost(Cur, fail).hosts = {} THEN {Hostname}
                 ELSE GetLockHost(Cur, fail).hosts)
    /\ \E g \in {GetMappings(Cur, fail)} :
          IF g.err # Nil
          THEN /\ ret' = DrvRet("NewRbdDriver", "", g.err, "")
               /\ kcalls' = <<>>
               /\ UNCHANGED <<nbd, tables, procs, toolVars, clock, drvVars, restVars>>
          ELSE \E s \in {IF \E m \in g.maps : m.Name = Img.image
                         THEN startImage(Cur, who, gone, fail) ELSE Cur} :
                  /\ ret' = DrvRet("NewRbdDriver", "", Nil, "")
                  /\ Apply(s, s.nbd # {})

\* The host at startup: the image is mapped or not, mounted on the volume's
\* mount point or not, a namespace of a container holds a mount of the
\* device or not, and the lock list holds what earlier runs and the other
\* host left.
StartLocks == SUBSET {Lid(Hostname, 2), Lid("other", 0), Lid("other", 2)}
StartLine(on) == IF on THEN <<Line(2, 1, BlkPaths[1], VolumeMp, 0, 0)>> ELSE <<>>

InitStartup ==
    /\ \E mapped, here, there \in BOOLEAN :
          /\ (here \/ there) => mapped
          /\ nbd = IF mapped THEN {Row(Img, BlkPaths[1], FALSE)} ELSE {}
          /\ tables = [ns \in AllNs |->
                          IF ns = SelfNs THEN <<RootLine(0, 0)>> \o StartLine(here)
                          ELSE IF ns = PrivateNs THEN <<RootLine(0, 0)>> \o StartLine(there)
                          ELSE <<RootLine(0, 0)>>]
    /\ procs = [pid \in Pids |-> [ns |-> PidNs(pid), nsOk |-> TRUE, tabOk |-> TRUE]]
    /\ ret = DrvRet("init", "", Nil, "")
    /\ kcalls = <<>>
    /\ snaps = {} /\ batch = NoBatch /\ clock = 1
    /\ RestIdle
    /\ locks \in StartLocks
    /\ drv = NoDrv
    /\ docker \in SUBSET MountIds

NextStartup ==
    \E who \in Hosts, gone \in SUBSET {PrivateNs}, fail \in StartupFails :
        NewRbdDriver(who, gone, fail)

SpecStartup == InitStartup /\ [][NextStartup]_vars

LockedByOther == \E k \in locks : LockHost(k) # Hostname /\ clock < LockExp(k)

\* C22: when NewRbdDriver has returned, the image is not mapped on this host
\* while another host holds a valid lock of it.
C22_StartupRecovery ==
    ret.op = "NewRbdDriver" => ~(DrvMapped /\ LockedByOther)

(***************************************************************************)
(* The refresh loop of a held lock, cycle by cycle                         *)
(***************************************************************************)
\* The driver of SpecDriver, where the loop leaves once it finds its channel
\* closed: a closed channel is ready at every select, a tick only now and then.
SpecIdle == SpecDriver /\ WF_vars(LoopExit)

Held == drv.active /\ drv.open
RefreshDone == ret'.op = "refreshLock" /\ Held

AddFailed ==
    \E i \in 1..Len(kcalls) :
        kcalls[i].call = "lock add" /\ kcalls[i].mp \notin locks

\* C24: a renewing refresh cycle of a held lock whose lock-add or lock-list
\* command fails removes no lock entry of the host and leaves the refresh loop
\* running, the first cycle after the acquisition included.
C24_RefreshFailureRetried ==
    [][(RefreshDone /\ ret'.out = "refresh" /\ (ret'.err # Nil \/ AddFailed'))
       => /\ OwnLocks(locks) \subseteq locks'
          /\ drv'.loop = "ticking"]_vars

Unexpired(ls) == {k \in ls : clock < LockExp(k)}

\* C28: a renewing refresh cycle deletes an older entry of the host only if its
\* new entry was added, so a host that had an unexpired entry before the cycle
\* has one after it.
C28_AddThenPrune ==
    [][(RefreshDone /\ ret'.out = "refresh")
       => /\ AddFailed' => OwnLocks(locks) \subseteq locks'
          /\ Unexpired(OwnLocks(locks)) # {} => Unexpired(OwnLocks(locks')) # {}]_vars

\* C29: after a renewing refresh cycle of a held lock that returns no error
\* and added its entry, the lock list holds no entry of any host whose
\* expiration is in the past.
C29_RefreshReaps ==
    [][(RefreshDone /\ ret'.out = "refresh" /\ ret'.err = Nil /\ ~AddFailed')
       => \A k \in locks' : ~(clock' > LockExp(k))]_vars

\* C30: once release has closed the channel of a lock, the refresh loop of
\* that lock adds no lock entry: after a refreshLock that ran with the channel
\* closed, the lock list holds no entry of the host that it did not hold
\* before.
C30_NoRefreshAfterRelease ==
    [][(ret'.op = "refreshLock" /\ ~drv.open)
       => OwnLocks(locks') \subseteq OwnLocks(locks)]_vars

\* A mount of blk in another namespace that no unmount of ours reaches: it is
\* neither a peer nor a slave of a mount of blk in our namespace.
Orphan(t, blk) ==
    \E ns \in AllNs \ {SelfNs} : \E i \in 1..Len(t[ns]) :
        /\ t[ns][i].Source = blk
        /\ ~\E j \in 1..Len(t[SelfNs]) :
               /\ t[SelfNs][j].Source = blk
               /\ t[SelfNs][j].Shared # 0
               /\ (t[ns][i].Shared = t[SelfNs][j].Shared \/ t[ns][i].Master = t[SelfNs][j].Shared)

\* C25: an operation of a Dev issues "rbd nbd unmap" of a device only when no
\* namespace outside the peer group of our mount holds a mount of the device.
\* (The tables do not change between the last unmount of the operation and
\* its unmap.)
C25_UnmapOnlyUnmounted ==
    [][\A i \in 1..Len(kcalls') :
          kcalls'[i].call = "nbd unmap" => ~Orphan(tables', kcalls'[i].blk)]_vars

\* The mounts of blk that a scan finds: those of the namespaces of live
\* processes whose table reads without error, each with its parent.
FoundIn(blk) ==
    UNION {LET r == getMountInfoForDevFromFile([exists |-> TRUE, lines |-> tables[ns]], blk)
           IN  IF r.err # Nil THEN {} ELSE {r.mounts[i] : i \in 1..Len(r.mounts)}
           : ns \in LiveNs \ {SelfNs}}

\* Our namespace passes the first check of the scan: its table reads, and it
\* has blk on mp or not at all.
LocalClean(blk, mp) ==
    /\ getMounts(blk).err = Nil
    /\ \A i \in DevLines(SelfNs, blk) : tables[SelfNs][i].MountPoint = mp

MyMount(blk) == getMounts(blk).mounts[1]

\* the ids of the foreign mount itself against the shared id of our mount
OwnIdsMatch(fm, blk) ==
    /\ DevLines(SelfNs, blk) # {}
    /\ \/ fm.m.Shared # 0 /\ fm.m.Shared = MyMount(blk).m.Shared
       \/ fm.m.Master # 0 /\ fm.m.Master = MyMount(blk).m.Shared

\* the ids of the foreign mount's parent against the shared id of the parent
\* of our mount
ParentIdsMatch(fm, blk) ==
    /\ DevLines(SelfNs, blk) # {}
    /\ \/ fm.PShared # 0 /\ fm.PShared = MyMount(blk).PShared
       \/ fm.PMaster # 0 /\ fm.PMaster = MyMount(blk).PShared

\* C26 as stated: the scan reports ErrMountedElsewhere exactly when it finds a
\* foreign mount of the device whose own shared id and own master id both
\* differ from the shared id of our mount of the device.
C26_OwnIdsTolerance ==
    (ret.op = "isMountedElsewhere" /\ LocalClean(ret.out, ret.mp)) =>
        (ret.err = ErrMountedElsewhere <=> \E fm \in FoundIn(ret.out) : ~OwnIdsMatch(fm, ret.out))

\* C26, amended: the scan tolerates a foreign mount of the device only if the
\* shared id of its parent mount, or the master id of its parent mount, is
\* non-zero and equals the shared id of the parent of our own mount of the
\* device; every other foreign mount it finds, any found while the device is
\* not mounted here included, is reported as ErrMountedElsewhere.
C26_ParentIdsTolerance ==
    (ret.op = "isMountedElsewhere" /\ LocalClean(ret.out, ret.mp)) =>
        /\ ret.err = ErrMountedElsewhere <=> \E fm \in FoundIn(ret.out) : ~ParentIdsMatch(fm, ret.out)
        /\ ret.err \in {Nil, ErrMountedElsewhere}

\* A scan has tolerated a foreign mount whose own ids are zero, under a parent
\* that is a peer of our mount's parent.
C26_Witness ==
    /\ ret.op = "isMountedElsewhere" /\ ret.err = Nil
    /\ LocalClean(ret.out, ret.mp)
    /\ \E fm \in FoundIn(ret.out) :
          fm.m.Shared = 0 /\ fm.m.Master = 0 /\ fm.PShared = MyMount(ret.out).PShared

\* C27: a scan returns no success when a table it reads, ours or that of a
\* live process, has a line that does not parse; and a process whose files
\* are gone does not make it fail.
C27_MalformedIsError ==
    ret.op = "isMountedElsewhere" =>
        /\ (\E ns \in LiveNs \cup {SelfNs} : ~WellFormed(ns)) => ret.err # Nil
        /\ ret.err # ErrOpen

(***************************************************************************)
(* rbddriver on two hosts: mapDevice of one image, statement by statement, *)
(* over the one lock list of the cluster                                   *)
(***************************************************************************)
acqRest == <<devVars, toolVars, drvVars, rel, cluster, mux, sd>>

\* IsLocked as host h sees it: a valid lock of a host other than h
IsLockedFor(h) == \E k \in locks : clock < LockExp(k) /\ LockHost(k) # h

AcqAt(h, pc) == acq[h].pc = pc
AcqTo(h, pc) == [acq EXCEPT ![h].pc = pc]

\* mapDevice: img.IsLocked()
MapCheck(h) ==
    /\ AcqAt(h, "idle")
    /\ acq' = AcqTo(h, IF IsLockedFor(h) THEN "refused" ELSE "unlocked")
    /\ UNCHANGED <<acqRest, clock>>

\* img.lock -> AcquireLock: IsLocked once more, then InheritLock, which reaps
\* the expired locks and starts the refresh loop.
MapLock(h) ==
    /\ AcqAt(h, "unlocked")
    /\ IF IsLockedFor(h)
       THEN /\ acq' = AcqTo(h, "refused")
            /\ UNCHANGED locks
       ELSE /\ acq' = [acq EXCEPT ![h].pc = "locked", ![h].loop = "start"]
            /\ locks' = {k \in locks : ~(clock > LockExp(k))}
    /\ UNCHANGED <<devVars, toolVars, clock, drv, docker, rel, cluster, mux, sd>>

\* "rbd map"; when it fails the deferred unlock releases the lock.
MapCmd(h, ok) ==
    /\ AcqAt(h, "locked")
    /\ IF ok
       THEN /\ acq' = [acq EXCEPT ![h].pc = "mapped", ![h].mapped = TRUE]
            /\ UNCHANGED locks
       ELSE /\ acq' = [acq EXCEPT ![h].pc = "refused", ![h].loop = "closed"]
            /\ locks' = {k \in locks : LockHost(k) # h}
    /\ UNCHANGED <<devVars, toolVars, clock, drv, docker, rel, cluster, mux, sd>>

\* The refresh loop of h: refreshLock adds the entry of h and removes the
\* other entries of h.
HostRefresh(h) ==
    /\ acq[h].loop \in {"start", "ticking"}
    /\ clock + ExpiresIn \in LockTimes
    /\ locks' = {k \in locks : LockHost(k) # h} \cup {Lid(h, clock + ExpiresIn)}
    /\ acq' = [acq EXCEPT ![h].loop = "ticking"]
    /\ UNCHANGED <<devVars, toolVars, clock, drv, docker, rel, cluster, mux, sd>>

\* unmapDevice: "rbd unmap", then unlock -> release
HostUnmap(h) ==
    /\ AcqAt(h, "mapped")
    /\ acq' = [acq EXCEPT ![h].pc = "idle", ![h].mapped = FALSE, ![h].loop = "closed"]
    /\ locks' = {k \in locks : LockHost(k) # h}
    /\ UNCHANGED <<devVars, toolVars, clock, drv, docker, rel, cluster, mux, sd>>

\* a refused Mount returns, and docker may ask again
HostRetry(h) ==
    /\ AcqAt(h, "refused")
    /\ acq' = AcqTo(h, "idle")
    /\ UNCHANGED <<acqRest, clock>>

HostTick ==
    /\ clock < MaxTime
    /\ clock' = clock + 1
    /\ UNCHANGED <<acqRest, acq>>

InitHosts ==
    /\ nbd = {}
    /\ tables = [ns \in AllNs |->
                    IF ns = PrivateNs THEN <<RootLine(0, 0)>> ELSE <<RootLine(1, 0)>>]
    /\ procs = [pid \in Pids |-> [ns |-> PidNs(pid), nsOk |-> TRUE, tabOk |-> TRUE]]
    /\ ret = DrvRet("init", "", Nil, "")
    /\ kcalls = <<>>
    /\ ToolIdle
    /\ locks = {} /\ drv = NoDrv /\ docker = {}
    /\ rel = NoRel
    /\ cluster = NoCluster
    /\ mux = NoMux
    /\ sd = NoSd
    /\ acq = [h \in Hosts |-> [pc |-> "idle", loop |-> "none", mapped |-> FALSE]]

NextHosts ==
    \/ \E h \in Hosts :
          \/ MapCheck(h)
          \/ MapLock(h)
          \/ \E ok \in BOOLEAN : MapCmd(h, ok)
          \/ HostRefresh(h)
          \/ HostUnmap(h)
          \/ HostRetry(h)
    \/ HostTick

SpecHosts == InitHosts /\ [][NextHosts]_vars

\* C31: the image is never mapped on both hosts at a time.
C31_CrossHostExclusion ==
    ~\A h \in Hosts : acq[h].mapped

\* C32: while the driver has the image mapped, the lock list holds an
\* unexpired entry of the local host.
C32_MappedImpliesLocked ==
    (drv.loaded /\ DrvMapped) => Unexpired(OwnLocks(locks)) # {}

\* C33: a snap of a batch over an image that is mapped and not mounted in our
\* namespace: when the scan finds the device mounted elsewhere no snapshot is
\* made, the run goes on and the error is collected; when the scan is clean
\* no freeze is issued, and the snapshot is made unless a command fails.
C33_SnapUnmountedMapped ==
    [][\A item \in batch.todo \ batch'.todo :
          (/\ batch.tool = "snap"
           /\ BlkOf(item[2]) # ""
           /\ getMounts(BlkOf(item[2])).err = Nil
           /\ Len(getMounts(BlkOf(item[2])).mounts) = 0)
          => IF isMountedElsewhere(BlkOf(item[2]), "") # Nil
             THEN /\ snaps' = snaps
                  /\ batch'.tool = "snap"
                  /\ Len(batch'.errs) = Len(batch.errs) + 1
             ELSE /\ \A i \in (Len(kcalls) + 1)..Len(kcalls') :
                        kcalls'[i].call # "fsfreeze --freeze"
                  /\ (batch'.clean /\ Len(batch'.errs) = Len(batch.errs))
                        => \E sn \in snaps' \ snaps : sn.image = item[2].image]_vars

(***************************************************************************)
(* rbd-snap: the snap whose goroutine looks at the match itself            *)
(***************************************************************************)
\* snap up to the calls of CreateConsistentSnapshot: an image goes on to the
\* snapshot unless filepath.Match returned an error.
snapImgs(patterns, fail) ==
    LET parts(p) == SplitN(p)
        valid == {p \in patterns : Len(parts(p)) = 2}
        listed == {p \in valid : Images(parts(p)[1], fail).err = Nil}
        pairs == {<<p, i>> : p \in listed, i \in PoolImages}
        bad == {x \in pairs : Match(parts(x[1])[2], x[2].image).err # Nil}
    IN  [errs |-> Added({[by |-> p, err |-> ErrInvalidPattern] : p \in patterns \ valid}
                        \cup {[by |-> p, err |-> ErrCmd] : p \in valid \ listed}
                        \cup {[by |-> y[1] \o " " \o y[2].image, err |-> ErrBadPattern] :
                                y \in bad}),
         work |-> pairs \ bad]

SnapAllStart(patterns) ==
    \E fail \in {"none", "images"} :
        \E plan \in {snapImgs(patterns, fail)} :
            /\ batch.tool = "idle"
            /\ batch' = [tool |-> "snap", patterns |-> patterns, before |-> 0,
                         name |-> StampedName(clock), onlyMapped |-> TRUE,
                         todo |-> plan.work, errs |-> plan.errs,
                         start |-> snaps, clean |-> fail = "none", joined |-> <<>>,
                         frozen |-> {}]
            /\ ret' = ToolRet("running", Nil)
            /\ kcalls' = <<>>
            /\ UNCHANGED <<nbd, tables, procs, snaps, clock, drvVars, restVars>>

NextSnapAll ==
    \/ \E patterns \in PatternSets : SnapAllStart(patterns)
    \/ \E item \in batch.todo : SnapImg(item)
    \/ ToolEnd

SpecSnapAll == InitSnap /\ [][NextSnapAll]_vars

Glob(p) == SplitN(p)[2]
Malformed(p) ==
    /\ Len(SplitN(p)) = 2
    /\ SplitN(p)[1] = PoolName
    /\ \E i \in PoolImages : Match(Glob(p), i.image).err # Nil

\* C34: the items a batch run acts on are volumes whose name matches the glob
\* of their pattern, and a run that lists the pool of a malformed glob
\* collects an error.
C34_GlobFilter ==
    [][batch'.tool \in {"prune", "snap"}
       => /\ \A item \in batch'.todo :
                Match(Glob(item[1]), item[2].image) = [err |-> Nil, m |-> TRUE]
          /\ (batch.tool = "idle" /\ batch'.clean)
                => \A p \in batch'.patterns : Malformed(p) => batch'.errs # <<>>]_vars

\* The calls of the step that has just run
NewCalls == SubSeq(kcalls', Len(kcalls) + 1, Len(kcalls'))

\* C35: a step of prune on a snapshot issues "rbd snap remove" only as its
\* last call, after the unmount and unmap of UnmountAndUnmap have succeeded,
\* so that the snapshot's device is no longer mapped; and when the check for
\* mounts elsewhere fails for a snapshot, the snapshot stays, no remove is
\* issued, and unless the snapshot is newer than the cutoff an error is
\* collected.
C35_PruneOrdering ==
    [][\A item \in batch.todo \ batch'.todo :
          batch.tool = "prune" =>
             /\ \A i \in 1..Len(NewCalls) :
                   NewCalls[i].call = "snap remove" =>
                       /\ i = Len(NewCalls)
                       /\ ~\E m \in nbd' : IsDev(m, SnapDev(item[2]))
             /\ item[2] \notin snaps' =>
                   /\ NewCalls # <<>> /\ NewCalls[Len(NewCalls)].call = "snap remove"
                   /\ batch'.errs = batch.errs
             /\ (BlkOf(SnapDev(item[2])) # ""
                   /\ isMountedElsewhere(BlkOf(SnapDev(item[2])), "") # Nil) =>
                   /\ item[2] \in snaps'
                   /\ \A i \in 1..Len(NewCalls) : NewCalls[i].call # "snap remove"
                   /\ batch'.errs # batch.errs \/ batch.before < Created(item[2])]_vars

\* A prune has refused an old snapshot whose device is mounted elsewhere: the
\* snapshot is kept and the error collected.
C35_Witness ==
    /\ batch.tool = "prune" /\ batch.errs # <<>>
    /\ \E sn \in snaps :
          /\ Created(sn) < batch.before
          /\ BlkOf(SnapDev(sn)) # ""
          /\ isMountedElsewhere(BlkOf(SnapDev(sn)), "") = ErrMountedElsewhere
          /\ \A item \in batch.todo : item[2] # sn
          /\ \E p \in batch.patterns : Len(SplitN(p)) = 2 /\ Match(Glob(p), sn.image).m
    /\ batch.clean

\* strings.HasPrefix over the names of the model
HasPrefix(str, prefix) ==
    \E rest \in {""} \cup {"_" \o r : r \in Rests} : str = prefix \o rest

\* C36: no step of prune removes a snapshot whose name does not start with
\* the prefix, and none unmaps such a snapshot or issues its removal, whatever the
\* snapshot's creation timestamp.
C36_PruneOnlyPrefixed ==
    [][batch.tool = "prune" =>
          \A sn \in snaps :
             ~HasPrefix(sn.name, Prefix) =>
                 /\ sn \in snaps'
                 /\ \A m \in nbd : IsDev(m, SnapDev(sn)) => m \in nbd'
                 /\ ClusterCall("snap remove", sn.image, sn.name)
                       \notin {NewCalls[i] : i \in 1..Len(NewCalls)}]_vars

\* A request has the mutex that getMutex returned to it.
Got(r) == mux.req[r].pc \in {"Unlock", "got", "observe", "act"}

\* C37: getMutex returns the registry's mutex of the name to every caller, so
\* callers with one name have one mutex, and the registry holds at most one
\* mutex a name: every mutex ever made is the entry of exactly one name.
C37_OneMutexPerName ==
    /\ \A r \in Reqs :
          Got(r) => mux.req[r].mutex # 0 /\ mux.req[r].mutex = mux.map[mux.req[r].name]
    /\ \A r1, r2 \in Reqs :
          (Got(r1) /\ Got(r2) /\ mux.req[r1].name = mux.req[r2].name)
             => mux.req[r1].mutex = mux.req[r2].mutex
    /\ \A m \in 1..mux.made : Cardinality({n \in ImgNames : mux.map[n] = m}) = 1

\* Two requests missed the mutex of one name under the read lock; one made
\* it, and the other, looking again under the write lock, has found it.
C37_Witness ==
    \E r1, r2 \in Reqs :
        /\ r1 # r2
        /\ At(r1, "Unlock") /\ At(r2, "got")
        /\ mux.req[r1].name = mux.req[r2].name
        /\ mux.req[r1].mutex = mux.req[r2].mutex
        /\ mux.made = 1

(***************************************************************************)
(* package rbd: GetRBD and CreateRBD, which return the image with its      *)
(* mutex locked, under the handlers of the driver that call them           *)
(***************************************************************************)
RbdNames == <<"data1", "data2">>
\* A goroutine inside GetRBD or CreateRBD of pool/rbdName, or before it.
RbdReq(pc, pool, rbdName, op, glob) ==
    [pc |-> pc, name |-> IF rbdName = "" THEN "" ELSE pool \o "/" \o rbdName,
     rbd |-> rbdName, mutex |-> 0, unlocking |-> FALSE, seen |-> 0,
     op |-> op, glob |-> glob]

\* A handler starts: nameAndLog makes the name, Create calls rbd.CreateRBD,
\* the others rd.getRBD, and both begin with mutex := getMutex(rbdName).
Handler(r, name, op) ==
    /\ At(r, "idle")
    /\ mux' = [mux EXCEPT !.req[r] = RbdReq("RLock", PoolName, name, op, "")]
    /\ UNCHANGED muxRest

\* CreateRBD after mutex.Lock(): "rbd create". Exit code 17 (the image
\* exists) counts as done; on any other error CreateRBD returns.
RbdCreate(r, ok) ==
    /\ At(r, "observe") /\ mux.req[r].op = "create"
    /\ mux' = [mux EXCEPT !.req = Goto(r, IF ok THEN "info" ELSE "idle")]
    /\ UNCHANGED muxRest

\* getRBD: "rbd info". GetRBD unlocks the mutex when getRBD fails; CreateRBD
\* returns what getRBD returns.
RbdInfo(r, ok) ==
    /\ \/ At(r, "info")
       \/ At(r, "observe") /\ mux.req[r].op = "get"
    /\ mux' = [mux EXCEPT !.held[mux.req[r].mutex] =
                              IF ~ok /\ mux.req[r].op = "get" THEN 0 ELSE @,
                          !.req = Goto(r, IF ok THEN "act" ELSE "idle")]
    /\ UNCHANGED muxRest

\* The handler has the image: it works on it and returns, and its deferred
\* rbd.Unlock() runs.
RbdUnlock(r) ==
    /\ At(r, "act") /\ mux.req[r].op \in {"create", "get"}
    /\ mux' = [mux EXCEPT !.held[mux.req[r].mutex] = 0, !.req = Goto(r, "idle")]
    /\ UNCHANGED muxRest

InitRbd ==
    /\ nbd = {}
    /\ tables = [ns \in AllNs |->
                    IF ns = PrivateNs THEN <<RootLine(0, 0)>> ELSE <<RootLine(1, 0)>>]
    /\ procs = [pid \in Pids |-> [ns |-> PidNs(pid), nsOk |-> TRUE, tabOk |-> TRUE]]
    /\ ret = EnvRet
    /\ kcalls = <<>>
    /\ ToolIdle
    /\ DriverIdle
    /\ rel = NoRel
    /\ cluster = NoCluster
    /\ mux = [map |-> [n \in ImgNames |-> 0], made |-> 0, readers |-> {}, writer |-> 0,
              held |-> [m \in Mutexes |-> 0],
              vol |-> [n \in ImgNames |-> 0],
              req |-> [r \in Reqs |-> RbdReq("idle", "", "", "", "")]]
    /\ sd = NoSd
    /\ acq = NoAcq

NextRbd ==
    \E r \in Reqs :
        \/ \E i \in DOMAIN RbdNames, op \in {"create", "get"} : Handler(r, RbdNames[i], op)
        \/ RLock(r)
        \/ Load(r)
        \/ RUnlock(r)
        \/ WLock(r)
        \/ Store(r)
        \/ WUnlock(r)
        \/ MutexLock(r)
        \/ \E ok \in BOOLEAN : RbdCreate(r, ok)
        \/ \E ok \in BOOLEAN : RbdInfo(r, ok)
        \/ RbdUnlock(r)

SpecRbd == InitRbd /\ [][NextRbd]_vars

\* C38: a mutex of an image is locked only while the handler that locked it
\* is between its Lock and its return: no handler that has returned, with an
\* error or without, has left the mutex locked.
C38_MutexReleased ==
    \A m \in Mutexes :
        mux.held[m] # 0 =>
            /\ mux.req[mux.held[m]].pc \in {"observe", "info", "act"}
            /\ mux.req[mux.held[m]].mutex = m

(***************************************************************************)
(* rbd-snap: snap starts one goroutine of snapRbd for every pattern and    *)
(* every image of its pool, and waits for them on snapWg                   *)
(***************************************************************************)
SnapPatterns == {"docker/data*", "docker/data1", "docker/["}
SnapPatternLists ==
    {<<p>> : p \in SnapPatterns} \cup {<<p, q>> : p, q \in SnapPatterns}

AtTask(k, pc) == k \in DOMAIN mux.req /\ mux.req[k].pc = pc

\* snap: the loop over the patterns; a goroutine with snapWg.Add(1) for every
\* image that ListRBDs returns.
SnapGo(patterns) ==
    /\ ~mux.started
    /\ mux' = [mux EXCEPT
                 !.started = TRUE,
                 !.wg = Len(patterns) * Len(RbdNames),
                 !.req = [k \in 1..(Len(patterns) * Len(RbdNames)) |->
                             RbdReq("match",
                                    SplitN(patterns[((k - 1) \div Len(RbdNames)) + 1])[1],
                                    RbdNames[((k - 1) % Len(RbdNames)) + 1],
                                    "snap",
                                    Glob(patterns[((k - 1) \div Len(RbdNames)) + 1]))]]
    /\ UNCHANGED muxRest

\* snapRbd: filepath.Match; on an error or no match it returns, and the
\* goroutine calls snapWg.Done(). Otherwise rbdlib.GetRBD begins.
SnapMatch(k) ==
    /\ AtTask(k, "match")
    /\ \E r \in {Match(mux.req[k].glob, mux.req[k].rbd)} :
          mux' = IF r.err = Nil /\ r.m
                 THEN [mux EXCEPT !.req = Goto(k, "RLock")]
                 ELSE [mux EXCEPT !.req = Goto(k, "done"), !.wg = @ - 1]
    /\ UNCHANGED muxRest

\* GetRBD after mutex.Lock(): getRBD; when it fails GetRBD unlocks the mutex
\* and snapRbd returns the error.
SnapInfo(k, ok) ==
    /\ AtTask(k, "observe")
    /\ mux' = IF ok THEN [mux EXCEPT !.req = Goto(k, "act")]
              ELSE [mux EXCEPT !.held[mux.req[k].mutex] = 0,
                               !.req = Goto(k, "done"), !.wg = @ - 1]
    /\ UNCHANGED muxRest

\* snapRbd with the image: IsMapped, the freeze, the snapshot, the unfreeze,
\* and the return on any of its paths; then snapWg.Done().
SnapReturn(k) ==
    /\ AtTask(k, "act")
    /\ mux' = [mux EXCEPT !.req = Goto(k, "done"), !.wg = @ - 1]
    /\ UNCHANGED muxRest

\* snap: snapWg.Wait() returns
SnapWait ==
    /\ mux.started /\ mux.wg = 0 /\ ~mux.returned
    /\ mux' = [mux EXCEPT !.returned = TRUE]
    /\ UNCHANGED muxRest

InitSnapTasks ==
    /\ nbd = {}
    /\ tables = [ns \in AllNs |->
                    IF ns = PrivateNs THEN <<RootLine(0, 0)>> ELSE <<RootLine(1, 0)>>]
    /\ procs = [pid \in Pids |-> [ns |-> PidNs(pid), nsOk |-> TRUE, tabOk |-> TRUE]]
    /\ ret = EnvRet
    /\ kcalls = <<>>
    /\ ToolIdle
    /\ DriverIdle
    /\ rel = NoRel
    /\ cluster = NoCluster
    /\ mux = [map |-> [n \in ImgNames |-> 0], made |-> 0, readers |-> {}, writer |-> 0,
              held |-> [m \in Mutexes |-> 0],
              vol |-> [n \in ImgNames |-> 0],
              req |-> <<>>, started |-> FALSE, wg |-> 0, returned |-> FALSE]
    /\ sd = NoSd
    /\ acq = NoAcq

NextSnapTasks ==
    \/ \E patterns \in SnapPatternLists : SnapGo(patterns)
    \/ \E k \in DOMAIN mux.req :
          \/ SnapMatch(k)
          \/ RLock(k)
          \/ Load(k)
          \/ RUnlock(k)
          \/ WLock(k)
          \/ Store(k)
          \/ WUnlock(k)
          \/ MutexLock(k)
          \/ \E ok \in BOOLEAN : SnapInfo(k, ok)
          \/ SnapReturn(k)
    \/ SnapWait

\* Every goroutine that can take a step takes it: the external commands
\* return, and the scheduler runs every goroutine that is not blocked.
SpecSnapTasks == InitSnapTasks /\ [][NextSnapTasks]_vars /\ WF_vars(NextSnapTasks)

\* C39: for every list of patterns the run of snap terminates: every
\* goroutine of snapRbd finishes and snapWg.Wait() returns.
C39_SnapTerminates == <>(mux.returned)

(***************************************************************************)
(* rbddriver: the handlers Mount and Unmount under rd.mutex and the        *)
(* goroutine of refreshLoop, which takes no mutex of the driver, with the  *)
(* calls on rbdUsers as the steps: each of clear, add, remove and len      *)
(* holds u.lock for itself alone                                           *)
(***************************************************************************)
\* drv with the position of the handler (hpc) and of the refresh goroutine
\* (gpc), their conts, the ids the handler's reconcile registers (hreg), and
\* the mount ids docker holds a mount for (granted).
NoRace ==
    [loaded |-> FALSE, users |-> {}, noUsrCnt |-> 0, active |-> FALSE,
     open |-> FALSE, loop |-> "none",
     hpc |-> "idle", hid |-> "", hconts |-> {}, hreg |-> {},
     gpc |-> "idle", gconts |-> {}, granted |-> {}]

RaceApply(s, d) ==
    /\ nbd' = s.nbd
    /\ tables' = s.tables
    /\ locks' = s.locks
    /\ drv' = [d EXCEPT !.users = s.users, !.noUsrCnt = s.noUsrCnt, !.active = s.active,
                        !.open = s.open, !.loop = s.loop]
    /\ kcalls' = s.calls
    /\ UNCHANGED <<procs, toolVars, clock, restVars>>

RaceStep(d) ==
    /\ drv' = d
    /\ ret' = DrvEnv
    /\ kcalls' = <<>>
    /\ UNCHANGED <<nbd, tables, procs, toolVars, clock, locks, restVars>>

\* RbdDriver.Mount, the whole handler; docker asks for a mount id once.
HMount(id, fail) ==
    \E r \in {RbdImageMount(IF drv.loaded THEN Cur
                               ELSE [Cur EXCEPT !.users = {}, !.active = FALSE],
                              id, fail)} :
        /\ drv.hpc = "idle" /\ id \notin drv.granted
        /\ ~drv.loaded => drv.loop \in {"none", "stopped"} /\ drv.gpc = "idle"
        /\ RaceApply(r.s, [drv EXCEPT !.loaded = @ \/ r.err = Nil,
                                      !.granted = IF r.err = Nil THEN @ \cup {id} ELSE @])
        /\ ret' = DrvRet("Mount", id, r.err, IF r.err = Nil THEN r.out ELSE "")
        /\ docker' = docker

\* docker starts the container of a mount id it holds a mount for.
DockerStart(id) ==
    /\ id \in drv.granted \ docker
    /\ docker' = docker \cup {id}
    /\ RaceStep(drv)

\* RbdDriver.Unmount for a container that has stopped, up to reconcile's
\* GetContainersUsingImage.
HUnmount(id, ok) ==
    /\ drv.hpc = "idle" /\ drv.loaded /\ id \in drv.granted
    /\ docker' = docker \ {id}
    /\ RaceStep([drv EXCEPT !.hid = id, !.granted = @ \ {id},
                            !.hconts = IF ok THEN docker \ {id} ELSE {},
                            !.hreg = IF ok THEN docker \ {id} ELSE drv.users,
                            !.hpc = IF ok THEN "clear" ELSE "remove"])

\* reconcile: u.clear()
HClear ==
    /\ drv.hpc = "clear"
    /\ docker' = docker
    /\ RaceStep([drv EXCEPT !.users = {},
                            !.hpc = IF drv.hconts = {} THEN "remove" ELSE "add"])

\* reconcile: u.add(c.MountID)
HAdd(c) ==
    /\ drv.hpc = "add" /\ c \in drv.hconts
    /\ docker' = docker
    /\ RaceStep([drv EXCEPT !.users = @ \cup {c}, !.hconts = @ \ {c},
                            !.hpc = IF drv.hconts = {c} THEN "remove" ELSE "add"])

\* RbdImage.Unmount: img.users.remove(mountid)
HRemove ==
    /\ drv.hpc = "remove"
    /\ docker' = docker
    /\ RaceStep([drv EXCEPT !.users = @ \ {drv.hid}, !.hpc = "len"])

\* RbdImage.Unmount: img.users.len() and what follows it
HRest(fail) ==
    \E r \in {unmountRest(Cur, fail)} :
        /\ drv.hpc = "len"
        /\ RaceApply(r.s, [drv EXCEPT !.hpc = "idle"])
        /\ ret' = DrvRet("Unmount", drv.hid, r.err, "")
        /\ docker' = docker

\* refreshLock: reconcile's GetContainersUsingImage
GConts(ok) ==
    /\ drv.gpc = "idle" /\ drv.loop \in {"start", "ticking"}
    /\ docker' = docker
    /\ RaceStep([drv EXCEPT !.gconts = IF ok THEN docker ELSE {},
                            !.gpc = IF ok THEN "clear" ELSE "rest"])

\* reconcile: u.clear()
GClear ==
    /\ drv.gpc = "clear"
    /\ docker' = docker
    /\ RaceStep([drv EXCEPT !.users = {},
                            !.gpc = IF drv.gconts = {} THEN "rest" ELSE "add"])

\* reconcile: u.add(c.MountID)
GAdd(c) ==
    /\ drv.gpc = "add" /\ c \in drv.gconts
    /\ docker' = docker
    /\ RaceStep([drv EXCEPT !.users = @ \cup {c}, !.gconts = @ \ {c},
                            !.gpc = IF drv.gconts = {c} THEN "rest" ELSE "add"])

\* refreshLock after reconcile; the first refresh of the loop ends the loop
\* when it fails.
GRest ==
    \E r \in {refreshRest(Cur, "none")} :
        /\ drv.gpc = "rest"
        /\ RaceApply([r.s EXCEPT !.loop = IF drv.loop = "start"
                                          THEN IF r.err # Nil THEN "stopped" ELSE "ticking"
                                          ELSE @],
                     [drv EXCEPT !.gpc = "idle"])
        /\ ret' = DrvRet("refreshLock", "", r.err, r.path)
        /\ docker' = docker

\* refreshLoop: the closed channel ends the loop
GExit ==
    /\ drv.gpc = "idle"
    /\ LoopExit

InitRace ==
    /\ nbd = {}
    /\ tables = [ns \in AllNs |->
                    IF ns = PrivateNs THEN <<RootLine(0, 0)>> ELSE <<RootLine(1, 0)>>]
    /\ procs = [pid \in Pids |-> [ns |-> PidNs(pid), nsOk |-> TRUE, tabOk |-> TRUE]]
    /\ ret = DrvRet("init", "", Nil, "")
    /\ kcalls = <<>>
    /\ ToolIdle
    /\ RestIdle
    /\ locks = {}
    /\ drv = NoRace
    /\ docker = {}

NextRace ==
    \/ \E id \in MountIds, fail \in {"none", "mount"} : HMount(id, fail)
    \/ \E id \in MountIds : DockerStart(id)
    \/ \E id \in MountIds, ok \in BOOLEAN : HUnmount(id, ok)
    \/ HClear
    \/ \E c \in MountIds : HAdd(c)
    \/ HRemove
    \/ \E fail \in {"none", "umount"} : HRest(fail)
    \/ \E ok \in BOOLEAN : GConts(ok)
    \/ GClear
    \/ \E c \in MountIds : GAdd(c)
    \/ GRest
    \/ GExit

SpecRace == InitRace /\ [][NextRace]_vars

\* C40: a driver Unmount goes on past its test of the number of users, to
\* the unmount and unmap of the device, only when the containers that its own
\* reconcile registered, less the one it unmounts for, are none: it never
\* finds the set empty because the refresh task has just cleared it, and so
\* never unmounts the device under a live container whose id is registered.
C40_NoTransientEmpty ==
    [][(drv.hpc = "len" /\ drv.users = {} /\ drv'.hpc = "idle")
          => (drv.hreg \ {drv.hid}) \cap docker = {}]_vars

====
